---- MODULE Spec2Model ----
(***************************************************************************)
(* Vote pipeline of the forum backend: the VoteService (votes table and    *)
(* the upvotes/downvotes counters of posts and comments), the points       *)
(* ledger, the proof-of-work gate of the vote handlers and the             *)
(* notification hub.                                                       *)
(***************************************************************************)
EXTENDS Integers, Sequences, FiniteSets, Bags, TLC

(***************************************************************************)
(* Universe of the model                                                   *)
(***************************************************************************)
Users == {1, 2}
TargetTypes == {"post", "comment"}
Ids == {1, 2}
\* (target_type, target_id) pairs a caller passes: the rows above and a type with no table
Requests == (TargetTypes \X Ids) \cup {<<"forum", 1>>}
Targets == TargetTypes \X Ids
VoteInputs == {-1, 0, 1, 2}

\* votes.id values handed out by the auto-increment sequence
MaxVoteId == 2

VARIABLES
    content,        \* posts and comments tables: target -> row
    votes,          \* votes table: set of rows
    next_vote_id,   \* votes.id auto-increment sequence
    last,           \* request and result of the last completed call
    calls,          \* in-flight VoteService::vote calls (task -> frame)
    start,          \* tables at the time the concurrent calls were issued
    round,          \* rounds of concurrent calls issued so far
    karma,          \* users.karma: user id -> cached karma
    ledger,         \* user_points_ledger table: set of rows
    next_ledger_id, \* user_points_ledger.id auto-increment sequence
    now,            \* now_epoch_seconds()
    notifications,  \* notifications table: set of rows
    next_notification_id,   \* notifications.id auto-increment sequence
    connections,    \* NotificationHub.connections: user id -> list of conn ids
    channels,       \* the mpsc channel of each connection: conn id -> state
    next_conn_id    \* NotificationHub.next_conn_id

voteVars == <<content, votes, next_vote_id>>
concVars == <<calls, start, round>>
pointsVars == <<karma, ledger, next_ledger_id>>
notifyVars == <<notifications, next_notification_id>>
hubVars == <<connections, channels, next_conn_id>>
vars == <<content, votes, next_vote_id, last, calls, start, round,
          karma, ledger, next_ledger_id, now, notifications, next_notification_id,
          connections, channels, next_conn_id>>

Abs(x) == IF x < 0 THEN -x ELSE x
\* GREATEST left out of the statement
Greatest_NoClamp(a, b) == a

Greatest(a, b) == IF a >= b THEN a ELSE b

\* the parts of the state a specification does not exercise
NoClock == now = 0
NoNotifications == notifications = {} /\ next_notification_id = 1
\* NotificationHub::new(): no user has an entry in the DashMap
NoEntry == [present |-> FALSE, senders |-> <<>>]
NewHub == [u \in Users |-> NoEntry]
NoHub == connections = NewHub /\ channels = <<>> /\ next_conn_id = 1

(***************************************************************************)
(* Tables                                                                  *)
(***************************************************************************)
NoContent == [exists |-> FALSE, user_id |-> 0, upvotes |-> 0, downvotes |-> 0]
ContentRow(author) == [exists |-> TRUE, user_id |-> author, upvotes |-> 0, downvotes |-> 0]

\* Option<VoteModel>::None
NoVote == [id |-> 0, user_id |-> 0, target |-> <<"", 0>>, value |-> 0]

\* Post::find_by_id / Comment::find_by_id
FindTarget(ct, t) == t \in Targets /\ ct[t].exists

\* Vote::find().filter(user_id).filter(target_type).filter(target_id).one()
VoteRows(vs, u, t) == {r \in vs : r.user_id = u /\ r.target = t}
FindVote(vs, u, t) ==
    IF VoteRows(vs, u, t) = {} THEN NoVote
    ELSE CHOOSE r \in VoteRows(vs, u, t) : \A q \in VoteRows(vs, u, t) : r.id <= q.id

\* the user's current vote on the target: the row's value, 0 when absent
CurrentVote(vs, u, t) == FindVote(vs, u, t).value

\* a delete that matches nothing
DeleteVoteById_Keeps(vs, id) == vs

\* Vote::delete_by_id(id): deletes the row if it is still there, never fails
DeleteVoteById(vs, id) == {r \in vs : r.id # id}

\* ActiveModel::update: sets value on the row with this id;
\* RecordNotUpdated when the row is gone
UpdateVoteOk(vs, id) == \E r \in vs : r.id = id
UpdateVote(vs, id, v) ==
    {IF r.id = id THEN [r EXCEPT !.value = v] ELSE r : r \in vs}

\* an insert into a votes table that has no unique index
InsertVoteOk_NoIndex(vs, u, t) == TRUE

\* ActiveModel::insert under idx_votes_unique (user_id, target_type, target_id)
InsertVoteOk(vs, u, t) == VoteRows(vs, u, t) = {}
InsertVote(vs, id, u, t, v) ==
    vs \cup {[id |-> id, user_id |-> u, target |-> t, value |-> v]}

(***************************************************************************)
(* VoteService::update_counters: one UPDATE statement on the target row    *)
(***************************************************************************)
\* a swing that credits the new side and forgets the old one
CountersOf_NoSwing(row, delta) ==
    IF delta > 0
    THEN [row EXCEPT !.upvotes = row.upvotes + 1]
    ELSE [row EXCEPT !.downvotes = row.downvotes + 1]

CountersOf(row, delta) ==
    IF Abs(delta) > 1
    THEN IF delta > 0
         THEN [row EXCEPT !.upvotes = row.upvotes + 1,
                          !.downvotes = Greatest(row.downvotes - 1, 0)]
         ELSE [row EXCEPT !.downvotes = row.downvotes + 1,
                          !.upvotes = Greatest(row.upvotes - 1, 0)]
    ELSE IF delta > 0
         THEN [row EXCEPT !.upvotes = row.upvotes + delta]
         ELSE [row EXCEPT !.downvotes = row.downvotes + (-delta)]

update_counters(ct, t, delta) ==
    IF t[1] \notin TargetTypes THEN ct
    ELSE IF ~ct[t].exists THEN ct   \* WHERE id = $1 matches no row
    ELSE [ct EXCEPT ![t] = CountersOf(ct[t], delta)]

(***************************************************************************)
(* VoteService::vote, statement by statement.  A frame holds the locals    *)
(* of one call; each step is one awaited database statement.               *)
(***************************************************************************)
Frame(u, t, v) ==
    [pc |-> "validate", user_id |-> u, target |-> t, value |-> v,
     existing |-> NoVote, old_value |-> 0, delta |-> 0,
     result |-> "pending", ret |-> 0]

Finish(f, result, ret) == [f EXCEPT !.pc = "done", !.result = result, !.ret = ret]

\* a value check that only refuses 0
VoteValidate_NonZero(f) ==
    IF f.value = 0
    THEN Finish(f, "validation", 0)
    ELSE [f EXCEPT !.pc = "find_target"]

\* lines 26-30: value check
VoteValidate(f) ==
    IF f.value # 1 /\ f.value # -1
    THEN Finish(f, "validation", 0)
    ELSE [f EXCEPT !.pc = "find_target"]

\* a target lookup that never misses
VoteFindTarget_Skips(f, ct) ==
    IF f.target[1] \notin TargetTypes THEN Finish(f, "validation", 0)
    ELSE [f EXCEPT !.pc = "find_vote"]

\* lines 33-47: the target must exist
VoteFindTarget(f, ct) ==
    IF f.target[1] \notin TargetTypes THEN Finish(f, "validation", 0)
    ELSE IF ~FindTarget(ct, f.target) THEN Finish(f, "not_found", 0)
    ELSE [f EXCEPT !.pc = "find_vote"]

\* lines 50-57: read the existing vote
VoteFindExisting(f, vs) ==
    LET e == FindVote(vs, f.user_id, f.target)
    IN [f EXCEPT !.pc = "write", !.existing = e, !.old_value = e.value]

\* lines 59-62, 76-78, 85-94: the write to the votes table
VoteWriteFrame(f, vs) ==
    IF f.existing # NoVote
    THEN IF f.existing.value = f.value
         THEN [f EXCEPT !.pc = "counters", !.delta = -f.old_value, !.ret = 0]
         ELSE IF UpdateVoteOk(vs, f.existing.id)
              THEN [f EXCEPT !.pc = "counters", !.delta = f.value - f.old_value,
                             !.ret = f.value]
              ELSE Finish(f, "db_error", 0)
    ELSE IF InsertVoteOk(vs, f.user_id, f.target)
         THEN [f EXCEPT !.pc = "counters", !.delta = f.value, !.ret = f.value]
         ELSE Finish(f, "db_error", 0)

\* an upsert that keeps the row when the same value is sent again
VoteWriteRows_Upsert(f, vs, id) ==
    IF f.existing # NoVote
    THEN IF UpdateVoteOk(vs, f.existing.id)
         THEN UpdateVote(vs, f.existing.id, f.value)
         ELSE vs
    ELSE IF InsertVoteOk(vs, f.user_id, f.target)
         THEN InsertVote(vs, id, f.user_id, f.target, f.value)
         ELSE vs

VoteWriteRows(f, vs, id) ==
    IF f.existing # NoVote
    THEN IF f.existing.value = f.value
         THEN DeleteVoteById(vs, f.existing.id)
         ELSE IF UpdateVoteOk(vs, f.existing.id)
              THEN UpdateVote(vs, f.existing.id, f.value)
              ELSE vs
    ELSE IF InsertVoteOk(vs, f.user_id, f.target)
         THEN InsertVote(vs, id, f.user_id, f.target, f.value)
         ELSE vs

\* the insert draws from the sequence whether or not it succeeds
VoteWriteSeq(f, id) == IF f.existing = NoVote THEN id + 1 ELSE id

\* lines 63, 80, 95: update_counters, then the return
VoteCounters(f) == Finish(f, "ok", f.ret)

\* A whole call run to completion with no other statement in between
RECURSIVE RunVote(_, _, _, _)
RunVote(f, ct, vs, id) ==
    CASE f.pc = "validate"    -> RunVote(VoteValidate(f), ct, vs, id)
      [] f.pc = "find_target" -> RunVote(VoteFindTarget(f, ct), ct, vs, id)
      [] f.pc = "find_vote"   -> RunVote(VoteFindExisting(f, vs), ct, vs, id)
      [] f.pc = "write"       -> RunVote(VoteWriteFrame(f, vs), ct,
                                         VoteWriteRows(f, vs, id), VoteWriteSeq(f, id))
      [] f.pc = "counters"    -> RunVote(VoteCounters(f),
                                         update_counters(ct, f.target, f.delta), vs, id)
      [] OTHER                -> [frame |-> f, content |-> ct, votes |-> vs,
                                  next_vote_id |-> id]

vote(ct, vs, id, u, t, v) == RunVote(Frame(u, t, v), ct, vs, id)

(***************************************************************************)
(* Sequential use of VoteService::vote                                     *)
(***************************************************************************)
NoTwice == [is |-> FALSE, upvotes |-> 0, downvotes |-> 0]

NoCall == [op |-> "none", user_id |-> 0, target |-> <<"", 0>>, value |-> 0,
           old_value |-> 0, result |-> "none", ret |-> 0,
           old_upvotes |-> 0, old_downvotes |-> 0, twice |-> NoTwice]

\* whether a call repeats the previous call, which was an accepted new vote,
\* and the counters that previous call started from
Twice(prev, u, t, v) ==
    IF /\ prev.op = "vote" /\ prev.result = "ok" /\ prev.old_value = 0
       /\ prev.user_id = u /\ prev.target = t /\ prev.value = v
    THEN [is |-> TRUE, upvotes |-> prev.old_upvotes, downvotes |-> prev.old_downvotes]
    ELSE NoTwice

InitContent ==
    [t \in Targets |->
        IF t = <<"post", 1>> THEN ContentRow(1)
        ELSE IF t = <<"comment", 1>> THEN ContentRow(2)
        ELSE NoContent]

InitVote ==
    /\ content = InitContent
    /\ votes = {}
    /\ next_vote_id = 1
    /\ last = NoCall
    /\ calls = <<>>
    /\ start = <<>>
    /\ round = 0
    /\ karma = [u \in Users |-> 0]
    /\ ledger = {}
    /\ next_ledger_id = 1
    /\ NoClock /\ NoNotifications /\ NoHub

Vote(u, t, v) ==
    LET r == vote(content, votes, next_vote_id, u, t, v)
    IN /\ r.next_vote_id <= MaxVoteId + 1
       /\ content' = r.content
       /\ votes' = r.votes
       /\ next_vote_id' = r.next_vote_id
       /\ last' = [op |-> "vote", user_id |-> u, target |-> t, value |-> v,
                   old_value |-> r.frame.old_value, result |-> r.frame.result,
                   ret |-> r.frame.ret,
                   old_upvotes |-> IF t \in Targets THEN content[t].upvotes ELSE 0,
                   old_downvotes |-> IF t \in Targets THEN content[t].downvotes ELSE 0,
                   twice |-> Twice(last, u, t, v)]
       /\ UNCHANGED <<concVars, pointsVars, now, notifyVars, hubVars>>

NextVote == \E u \in Users, t \in Requests, v \in VoteInputs : Vote(u, t, v)

SpecVote == InitVote /\ [][NextVote]_vars

(***************************************************************************)
(* Properties of sequential vote calls (SpecVote)                          *)
(***************************************************************************)
Bit(b) == IF b THEN 1 ELSE 0
UpRows(vs, t) == {r \in vs : r.target = t /\ r.value = 1}
DownRows(vs, t) == {r \in vs : r.target = t /\ r.value = -1}

LastVoteDone == last.op = "vote" /\ last.result = "ok"
LastSameValue == LastVoteDone /\ last.old_value \in {1, -1} /\ last.value = last.old_value
LastSwing == LastVoteDone /\ last.old_value \in {1, -1} /\ last.value = -last.old_value

\* C1: after any sequence of completed vote calls, every post's and comment's
\* upvotes is the number of its vote rows with value 1 and its downvotes the
\* number of its vote rows with value -1.
C1_CountersMatchVotes ==
    \A t \in Targets :
        content[t].exists =>
            /\ content[t].upvotes = Cardinality(UpRows(votes, t))
            /\ content[t].downvotes = Cardinality(DownRows(votes, t))

\* C6: for every transition (old, new) of a user's vote made by an accepted
\* call, upvotes changes by [new = 1] - [old = 1] and downvotes by
\* [new = -1] - [old = -1].
C6_TransitionDeltas ==
    LastVoteDone =>
        LET old == last.old_value
            new == CurrentVote(votes, last.user_id, last.target)
            row == content[last.target]
        IN /\ row.upvotes - last.old_upvotes = Bit(new = 1) - Bit(old = 1)
           /\ row.downvotes - last.old_downvotes = Bit(new = -1) - Bit(old = -1)

\* C7: a call that submits the value the user already holds on the target
\* succeeds, returns the value 0 and leaves no vote row for (user, target).
C7_ToggleOffReturnsZero ==
    (/\ last.op = "vote"
     /\ last.old_value \in {1, -1}
     /\ last.value = last.old_value) =>
        /\ last.result = "ok"
        /\ last.ret = 0
        /\ VoteRows(votes, last.user_id, last.target) = {}

C7_Witness ==
    /\ LastSameValue
    /\ last.ret = 0
    /\ \E r \in votes : r.user_id # last.user_id /\ r.target = last.target

\* C8: voting a target with value v and then again with v returns the
\* target's (upvotes, downvotes) to the values before the first of the two.
C8_ToggleRestoresCounters ==
    (LastSameValue /\ last.twice.is) =>
        /\ content[last.target].upvotes = last.twice.upvotes
        /\ content[last.target].downvotes = last.twice.downvotes

C10_SwingMovesOneUnit ==
    (/\ last.op = "vote"
     /\ last.old_value \in {1, -1}
     /\ last.value = -last.old_value
     /\ (last.old_value = 1 => last.old_upvotes >= 1)
     /\ (last.old_value = -1 => last.old_downvotes >= 1)) =>
        LET row == content[last.target]
        IN /\ last.result = "ok"
           /\ last.ret = last.value
           /\ CurrentVote(votes, last.user_id, last.target) = last.value
           /\ row.upvotes = last.old_upvotes + last.value
           /\ row.downvotes = last.old_downvotes - last.value

C10_Witness ==
    /\ LastSwing
    /\ last.old_value = 1
    /\ last.old_upvotes = 1 /\ last.old_downvotes = 0
    /\ content[last.target].upvotes = 0 /\ content[last.target].downvotes = 1
    /\ last.ret = -1

(***************************************************************************)
(* Concurrent use of VoteService::vote: two request tasks, each running    *)
(* one call; the runtime interleaves them at every awaited statement.      *)
(***************************************************************************)
Tasks == {1, 2}
\* rounds of two concurrent calls
MaxRounds == 2
Idle == [Frame(0, <<"", 0>>, 0) EXCEPT !.pc = "idle"]
Tables == [content |-> content, votes |-> votes, next_vote_id |-> next_vote_id]

InitConc ==
    /\ content = InitContent
    /\ votes = {}
    /\ next_vote_id = 1
    /\ last = NoCall
    /\ calls = [k \in Tasks |-> Idle]
    /\ start = Tables
    /\ round = 0
    /\ karma = [u \in Users |-> 0]
    /\ ledger = {}
    /\ next_ledger_id = 1
    /\ NoClock /\ NoNotifications /\ NoHub

Quiescent == \A k \in Tasks : calls[k].pc = "idle"
AllDone == \A k \in Tasks : calls[k].pc = "done"

\* two requests arrive together
Issue(u1, t1, v1, u2, t2, v2) ==
    /\ Quiescent
    /\ round < MaxRounds
    /\ round' = round + 1
    /\ calls' = [k \in Tasks |-> IF k = 1 THEN Frame(u1, t1, v1) ELSE Frame(u2, t2, v2)]
    /\ start' = Tables
    /\ UNCHANGED <<voteVars, last, pointsVars, now, notifyVars, hubVars>>

\* one task runs up to and including its next awaited statement
Step(k) ==
    LET f == calls[k]
    IN /\ f.pc \notin {"idle", "done"}
       /\ calls' = [calls EXCEPT ![k] =
            CASE f.pc = "validate"    -> VoteValidate(f)
              [] f.pc = "find_target" -> VoteFindTarget(f, content)
              [] f.pc = "find_vote"   -> VoteFindExisting(f, votes)
              [] f.pc = "write"       -> VoteWriteFrame(f, votes)
              [] f.pc = "counters"    -> VoteCounters(f)]
       /\ votes' = IF f.pc = "write" THEN VoteWriteRows(f, votes, next_vote_id) ELSE votes
       /\ next_vote_id' = IF f.pc = "write" THEN VoteWriteSeq(f, next_vote_id)
                          ELSE next_vote_id
       /\ content' = IF f.pc = "counters" THEN update_counters(content, f.target, f.delta)
                     ELSE content
       /\ UNCHANGED <<last, start, round, pointsVars, now, notifyVars, hubVars>>

\* both responses have been sent
Settle ==
    /\ AllDone
    /\ calls' = [k \in Tasks |-> Idle]
    /\ start' = Tables
    /\ UNCHANGED <<voteVars, last, round, pointsVars, now, notifyVars, hubVars>>

NextConc ==
    \/ \E u1, u2 \in Users, v1, v2 \in {-1, 1} :
          Issue(u1, <<"post", 1>>, v1, u2, <<"post", 1>>, v2)
    \/ \E k \in Tasks : Step(k)
    \/ Settle

SpecConc == InitConc /\ [][NextConc]_vars

\* what the two calls leave behind when run one after the other, first a then b
Serial(a, b) ==
    LET r1 == vote(start.content, start.votes, start.next_vote_id,
                   a.user_id, a.target, a.value)
    IN vote(r1.content, r1.votes, r1.next_vote_id, b.user_id, b.target, b.value)

SameOutcome(r, t, u) ==
    /\ CurrentVote(votes, u, t) = CurrentVote(r.votes, u, t)
    /\ Cardinality(VoteRows(votes, u, t)) = Cardinality(VoteRows(r.votes, u, t))
    /\ content[t].upvotes = r.content[t].upvotes
    /\ content[t].downvotes = r.content[t].downvotes

SameUserSameTarget ==
    /\ calls[1].user_id = calls[2].user_id
    /\ calls[1].target = calls[2].target

\* C2: two concurrent vote calls by the same user on the same target
\* serialize: whatever the interleaving, the final vote row and the target's
\* counters are those of running the two calls one after the other in some
\* order.
C2_ConcurrentCallsSerialize ==
    (AllDone /\ SameUserSameTarget) =>
        \/ SameOutcome(Serial(calls[1], calls[2]), calls[1].target, calls[1].user_id)
        \/ SameOutcome(Serial(calls[2], calls[1]), calls[1].target, calls[1].user_id)

(***************************************************************************)
(* PointsService: the karma ledger                                         *)
(***************************************************************************)
\* user_points_ledger.id values handed out by the auto-increment sequence
MaxLedgerId == 3
PointInputs == {-1, 0, 1, 2}

LedgerRows(lg, ref) == {e \in lg : e.ref = ref}
LedgerOf(lg, u) == {e \in lg : e.user_id = u}

RECURSIVE SumDeltas(_)
SumDeltas(es) ==
    IF es = {} THEN 0
    ELSE LET e == CHOOSE x \in es : TRUE
         IN e.delta + SumDeltas(es \ {e})

\* User::update_many().col_expr(karma, karma + d).filter(id = u):
\* rows_affected is 0 when the user row is gone
KarmaRowsAffected(km, u) == IF u \in DOMAIN km THEN 1 ELSE 0

\* a karma update that drops the increment
AddKarma_Lost(km, u, d) == km

AddKarma(km, u, d) == IF u \in DOMAIN km THEN [km EXCEPT ![u] = @ + d] ELSE km

\* lines 95-104: one UPDATE per selected entry
RECURSIVE SubtractEntries(_, _)
SubtractEntries(km, es) ==
    IF es = {} THEN km
    ELSE LET e == CHOOSE x \in es : \A y \in es : x.id <= y.id
         IN SubtractEntries(AddKarma(km, e.user_id, -e.delta), es \ {e})

\* what the database does to the transaction of one apply_vote_points call:
\* it goes through, one of its statements fails, or the UPDATE of users.karma
\* matches no row because the author's row went away after the target was read
TxnOutcomes == {"ok", "insert_fails", "update_fails", "no_author_row", "commit_fails"}

\* the checks without the comparison of author and actor
BeforeTxn_SelfCredit(ct, actor_user_id, t, delta_points) ==
    IF delta_points = 0 THEN "ok"
    ELSE IF t[1] \notin TargetTypes THEN "validation"
    ELSE IF ~FindTarget(ct, t) THEN "not_found"
    ELSE "txn"

\* the checks before the transaction, lines 27-53: "txn" when they pass
BeforeTxn(ct, actor_user_id, t, delta_points) ==
    IF delta_points = 0 THEN "ok"
    ELSE IF t[1] \notin TargetTypes THEN "validation"
    ELSE IF ~FindTarget(ct, t) THEN "not_found"
    ELSE IF ct[t].user_id = actor_user_id THEN "ok"
    ELSE "txn"

\* an apply_vote_points whose two writes are not in one transaction
apply_vote_points_txn_NoTxn(ct, km, lg, id, actor_user_id, t, delta_points, db) ==
    LET same == [karma |-> km, ledger |-> lg, next_ledger_id |-> id]
        pre == BeforeTxn(ct, actor_user_id, t, delta_points)
    IN IF pre # "txn" THEN same @@ [result |-> pre, txn |-> FALSE]
       ELSE LET author == ct[t].user_id
                entry == [id |-> id, user_id |-> author, delta |-> delta_points,
                          ref |-> t, actor_user_id |-> actor_user_id]
                written == lg \cup {entry}
            IN CASE db = "insert_fails" ->
                       same @@ [result |-> "internal", txn |-> TRUE]
                 [] db = "update_fails" ->
                       [karma |-> km, ledger |-> written, next_ledger_id |-> id + 1,
                        result |-> "internal", txn |-> TRUE]
                 [] db = "no_author_row" \/ KarmaRowsAffected(km, author) = 0 ->
                       [karma |-> km, ledger |-> written, next_ledger_id |-> id + 1,
                        result |-> "not_found", txn |-> TRUE]
                 [] OTHER ->
                       [karma |-> AddKarma(km, author, delta_points),
                        ledger |-> written, next_ledger_id |-> id + 1,
                        result |-> IF db = "commit_fails" THEN "internal" ELSE "ok",
                        txn |-> TRUE]

\* PointsService::apply_vote_points, lines 20-83, under a database outcome
apply_vote_points_txn(ct, km, lg, id, actor_user_id, t, delta_points, db) ==
    LET same == [karma |-> km, ledger |-> lg, next_ledger_id |-> id]
        pre == BeforeTxn(ct, actor_user_id, t, delta_points)
    IN IF pre # "txn" THEN same @@ [result |-> pre, txn |-> FALSE]
       ELSE LET author == ct[t].user_id
                entry == [id |-> id, user_id |-> author, delta |-> delta_points,
                          ref |-> t, actor_user_id |-> actor_user_id]
                \* the transaction is dropped uncommitted; the id it drew from
                \* the sequence is not given back
                dropped == [karma |-> km, ledger |-> lg, next_ledger_id |-> id + 1]
            IN CASE db = "insert_fails" ->
                       same @@ [result |-> "internal", txn |-> TRUE]
                 [] db = "update_fails" ->
                       dropped @@ [result |-> "internal", txn |-> TRUE]
                 [] db = "no_author_row" \/ KarmaRowsAffected(km, author) = 0 ->
                       dropped @@ [result |-> "not_found", txn |-> TRUE]
                 [] db = "commit_fails" ->
                       dropped @@ [result |-> "internal", txn |-> TRUE]
                 [] OTHER ->
                       [karma |-> AddKarma(km, author, delta_points),
                        ledger |-> lg \cup {entry},
                        next_ledger_id |-> id + 1,
                        result |-> "ok", txn |-> TRUE]

\* PointsService::apply_vote_points, lines 20-83, on a database that answers
apply_vote_points(ct, km, lg, id, actor_user_id, t, delta_points) ==
    LET r == apply_vote_points_txn(ct, km, lg, id, actor_user_id, t, delta_points, "ok")
    IN [karma |-> r.karma, ledger |-> r.ledger, next_ledger_id |-> r.next_ledger_id,
        result |-> r.result]

\* a rollback that deletes the rows and subtracts only the first of them
rollback_by_ref_First(km, lg, ref) ==
    LET entries == LedgerRows(lg, ref)
        first == {e \in entries : \A y \in entries : e.id <= y.id}
    IN [karma |-> SubtractEntries(km, first),
        ledger |-> lg \ entries,
        result |-> "ok",
        ret |-> Cardinality(entries)]

\* a rollback that does not filter by the reference
rollback_by_ref_Everything(km, lg, ref) ==
    [karma |-> SubtractEntries(km, lg),
     ledger |-> {},
     result |-> "ok",
     ret |-> Cardinality(LedgerRows(lg, ref))]

\* a rollback that subtracts the deltas and leaves the rows in the ledger
rollback_by_ref_KeepsRows(km, lg, ref) ==
    [karma |-> SubtractEntries(km, LedgerRows(lg, ref)),
     ledger |-> lg,
     result |-> "ok",
     ret |-> Cardinality(LedgerRows(lg, ref))]

\* PointsService::rollback_by_ref, lines 86-115
rollback_by_ref(km, lg, ref) ==
    LET entries == LedgerRows(lg, ref)
    IN [karma |-> SubtractEntries(km, entries),
        ledger |-> lg \ LedgerRows(lg, ref),
        result |-> "ok",
        ret |-> Cardinality(entries)]

\* comments.post_id: the post a comment hangs on (ON DELETE CASCADE)
CommentPost == [i \in Ids |-> 1]

\* Post::delete_by_id / Comment::delete_by_id with the cascade of
\* fk_comments_post_id
DeleteContent(ct, t) ==
    [x \in Targets |->
        IF x = t \/ (t[1] = "post" /\ x[1] = "comment" /\ CommentPost[x[2]] = t[2])
        THEN NoContent ELSE ct[x]]

\* the database of a rollback_by_ref call answers, or fails one statement
DbOutcomes == {"ok", "db_error"}

\* AdminService::admin_delete_post / admin_delete_comment, lines 78-102
admin_delete(ct, km, lg, t, db) ==
    IF ~FindTarget(ct, t)
    THEN [content |-> ct, karma |-> km, ledger |-> lg, result |-> "not_found",
          rollback |-> "none"]
    ELSE LET deleted == DeleteContent(ct, t)
             \* a failed statement drops the transaction uncommitted
             rolled == IF db = "ok" THEN rollback_by_ref(km, lg, t)
                       ELSE [karma |-> km, ledger |-> lg, result |-> "internal", ret |-> 0]
         IN  \* let _ = points.rollback_by_ref(..): the Result is discarded
             [content |-> deleted, karma |-> rolled.karma, ledger |-> rolled.ledger,
              result |-> "ok", rollback |-> rolled.result]

InitPoints ==
    /\ content = InitContent
    /\ votes = {}
    /\ next_vote_id = 1
    /\ last = [op |-> "none", result |-> "none", ret |-> 0]
    /\ calls = <<>>
    /\ start = <<>>
    /\ round = 0
    /\ karma = [u \in Users |-> 0]
    /\ ledger = {}
    /\ next_ledger_id = 1
    /\ NoClock /\ NoNotifications /\ NoHub

\* whether the call before this one already rolled this reference back
RolledBack(prev, ref) ==
    \/ prev.op = "rollback_by_ref" /\ prev.result = "ok" /\ prev.ref = ref
    \/ /\ prev.op \in {"admin_delete_post", "admin_delete_comment"}
       /\ prev.rollback = "ok" /\ prev.ref = ref

ApplyVotePoints(actor, t, d) ==
    LET r == apply_vote_points(content, karma, ledger, next_ledger_id, actor, t, d)
    IN /\ r.next_ledger_id <= MaxLedgerId + 1
       /\ karma' = r.karma
       /\ ledger' = r.ledger
       /\ next_ledger_id' = r.next_ledger_id
       /\ last' = [op |-> "apply_vote_points", ref |-> t, result |-> r.result, ret |-> 0]
       /\ UNCHANGED <<voteVars, concVars, now, notifyVars, hubVars>>

RollbackByRef(ref) ==
    LET r == rollback_by_ref(karma, ledger, ref)
    IN /\ karma' = r.karma
       /\ ledger' = r.ledger
       /\ last' = [op |-> "rollback_by_ref", ref |-> ref, result |-> r.result,
                   ret |-> r.ret, again |-> RolledBack(last, ref)]
       /\ UNCHANGED <<voteVars, concVars, next_ledger_id, now, notifyVars, hubVars>>

AdminDelete(op, t, db) ==
    LET r == admin_delete(content, karma, ledger, t, db)
    IN /\ content' = r.content
       /\ karma' = r.karma
       /\ ledger' = r.ledger
       /\ last' = [op |-> op, ref |-> t, result |-> r.result, ret |-> 0,
                   rollback |-> r.rollback]
       /\ UNCHANGED <<votes, next_vote_id, concVars, next_ledger_id, now,
                      notifyVars, hubVars>>

AdminDeletePost(post_id, db) == AdminDelete("admin_delete_post", <<"post", post_id>>, db)

AdminDeleteComment(comment_id, db) ==
    AdminDelete("admin_delete_comment", <<"comment", comment_id>>, db)

NextPoints ==
    \/ \E actor \in Users, t \in Requests, d \in PointInputs : ApplyVotePoints(actor, t, d)
    \/ \E ref \in Requests : RollbackByRef(ref)

SpecPoints == InitPoints /\ [][NextPoints]_vars

\* user_points_ledger.id values handed out before and between moderation
MaxAdminLedgerId == 2

\* awards, rollbacks and an administrator's deletes
NextAdmin ==
    \/ \E actor \in Users, t \in Requests, d \in PointInputs :
          next_ledger_id <= MaxAdminLedgerId /\ ApplyVotePoints(actor, t, d)
    \/ \E ref \in Requests : RollbackByRef(ref)
    \/ \E id \in Ids, db \in DbOutcomes : AdminDeletePost(id, db)
    \/ \E id \in Ids, db \in DbOutcomes : AdminDeleteComment(id, db)

SpecAdmin == InitPoints /\ [][NextAdmin]_vars

\* C3: in every committed state reached by apply_vote_points and
\* rollback_by_ref calls from karma 0 and an empty ledger, each user's karma
\* is the sum of the deltas of the ledger entries credited to that user.
C3_KarmaIsLedgerSum ==
    \A u \in Users : karma[u] = SumDeltas(LedgerOf(ledger, u))

C3_Witness ==
    /\ last.op = "rollback_by_ref"
    /\ last.ret >= 2
    /\ \E u \in Users : karma[u] # 0 /\ LedgerOf(ledger, u) # {}

(***************************************************************************)
(* utils/pow.rs: the proof-of-work challenge codec and verifier            *)
(***************************************************************************)

\* PowConfig as the deployment sets it (POW_TTL_SECONDS, POW_DIFFICULTY)
ServerSecret == "pow-secret"
OtherSecret == "guess"
PowConfig == [secret |-> ServerSecret, ttl_seconds |-> 1, difficulty |-> 1, version |-> 1]

\* the clock values of the model
MaxTime == 2

\* generate_salt: URL-safe base64 of 16 random bytes; one value stands for it
Salts == {"c2FsdA"}

\* a nonce of 129 bytes, one more than validate_pow_solution accepts
LongNonce == "0 x 129"
\* a nonce of exactly 128 bytes
FullNonce == "0 x 127, 1"
Nonces == {"", "0", "1", LongNonce}
MaxNonceLen == 128

\* str::as_bytes for the strings of the model
StrBytes(s) ==
    CASE s = "" -> <<>>
      [] s = "0" -> <<48>>
      [] s = "1" -> <<49>>
      [] s = LongNonce -> [i \in 1..(MaxNonceLen + 1) |-> 48]
      [] s = FullNonce -> [i \in 1..MaxNonceLen |-> IF i = MaxNonceLen THEN 49 ELSE 48]
      [] s = "vote" -> <<118, 111, 116, 101>>
      [] s = "edit" -> <<101, 100, 105, 116>>
      [] s = "post" -> <<112, 111, 115, 116>>
      [] s = "comment" -> <<99, 111, 109, 109, 101, 110, 116>>
      [] s = "c2FsdA" -> <<99, 50, 70, 115, 100, 65>>

\* iN::to_le_bytes: the n bytes of x, least significant first (two's
\* complement: % and \div round towards minus infinity)
RECURSIVE to_le_bytes(_, _)
to_le_bytes(x, n) ==
    IF n = 0 THEN <<>> ELSE <<x % 256>> \o to_le_bytes(x \div 256, n - 1)

\* Sha256: a 16-bit stand-in; every byte of the message enters the digest
\* with a weight that depends on its position
Sha256(bytes) ==
    LET terms == [i \in 1..Len(bytes) |-> bytes[i] * (((i * i * 31) + 7) % 251) + 1]
        h == (((BagCardinality(terms) + 5381) % 65536) * 25173 + 13849) % 65536
    IN  <<h \div 256, h % 256>>

\* u8 bitwise AND
RECURSIVE BitAnd(_, _, _)
BitAnd(a, b, n) ==
    IF n = 0 THEN 0
    ELSE 2 * BitAnd(a \div 2, b \div 2, n - 1) + (IF a % 2 = 1 /\ b % 2 = 1 THEN 1 ELSE 0)

\* a check that looks at whole bytes only
has_leading_zero_bits_WholeBytes(bytes, bits) ==
    LET full_bytes == bits \div 8
    IN  IF Len(bytes) < full_bytes THEN FALSE
        ELSE \A i \in 1..full_bytes : bytes[i] = 0

has_leading_zero_bits(bytes, bits) ==
    LET full_bytes == bits \div 8
        rem_bits == bits % 8
    IN  IF Len(bytes) < full_bytes + (IF rem_bits > 0 THEN 1 ELSE 0) THEN FALSE
        ELSE IF \E i \in 1..full_bytes : bytes[i] # 0 THEN FALSE
        ELSE IF rem_bits = 0 THEN TRUE
        ELSE LET mask == (255 * (2 ^ (8 - rem_bits))) % 256
             IN  BitAnd(bytes[full_bytes + 1], mask, 8) = 0

\* the bytes validate_pow_solution feeds the hasher, in order
PowPreimage(challenge, nonce) ==
    StrBytes(challenge.action) \o <<124>> \o
    StrBytes(challenge.target_type) \o <<124>> \o
    to_le_bytes(challenge.target_id, 4) \o <<124>> \o
    to_le_bytes(challenge.user_id, 4) \o <<124>> \o
    to_le_bytes(challenge.issued_at, 8) \o <<124>> \o
    to_le_bytes(challenge.expires_at, 8) \o <<124>> \o
    <<challenge.difficulty>> \o <<124>> \o
    StrBytes(challenge.salt) \o <<124>> \o
    StrBytes(nonce)

\* a verifier that asks for one zero bit even at difficulty 0
validate_pow_solution_OneBit(challenge, nonce) ==
    IF Len(StrBytes(nonce)) = 0 \/ Len(StrBytes(nonce)) > MaxNonceLen THEN "validation"
    ELSE IF ~has_leading_zero_bits(Sha256(PowPreimage(challenge, nonce)),
                                   IF challenge.difficulty = 0 THEN 1
                                   ELSE challenge.difficulty)
         THEN "validation"
    ELSE "ok"

validate_pow_solution(challenge, nonce) ==
    IF Len(StrBytes(nonce)) = 0 \/ Len(StrBytes(nonce)) > MaxNonceLen THEN "validation"
    ELSE IF ~has_leading_zero_bits(Sha256(PowPreimage(challenge, nonce)), challenge.difficulty)
         THEN "validation"
    ELSE "ok"

\* serde_json::to_vec / from_slice of a PowChallenge: the fields in
\* declaration order
Serialize(challenge) ==
    <<challenge.v, challenge.action, challenge.target_type, challenge.target_id,
      challenge.user_id, challenge.issued_at, challenge.expires_at,
      challenge.difficulty, challenge.salt>>

Deserializable(payload) == Len(payload) = 9

\* a decoder that reads the two times in the other order
Deserialize_Swapped(payload) ==
    [v |-> payload[1], action |-> payload[2], target_type |-> payload[3],
     target_id |-> payload[4], user_id |-> payload[5], issued_at |-> payload[7],
     expires_at |-> payload[6], difficulty |-> payload[8], salt |-> payload[9]]

Deserialize(payload) ==
    [v |-> payload[1], action |-> payload[2], target_type |-> payload[3],
     target_id |-> payload[4], user_id |-> payload[5], issued_at |-> payload[6],
     expires_at |-> payload[7], difficulty |-> payload[8], salt |-> payload[9]]

\* HMAC-SHA256 as an ideal MAC: the tag determines the key and the message
HmacSha256(secret, payload) == <<"hmac", secret, payload>>

\* URL_SAFE_NO_PAD: a segment of the token either decodes to data or is not
\* base64 at all
Encode(data) == [valid |-> TRUE, data |-> data]
NotBase64 == [valid |-> FALSE, data |-> <<>>]

\* the token is the sequence of its '.'-separated segments
sign_challenge(secret, challenge) ==
    LET payload == Serialize(challenge)
        sig == HmacSha256(secret, payload)
    IN  <<Encode(payload), Encode(sig)>>

\* a verifier that decodes the payload without checking the signature
verify_and_decode_challenge_Unsigned(secret, token, now_) ==
    IF Len(token) < 2 THEN [result |-> "validation"]
    ELSE IF ~token[1].valid THEN [result |-> "validation"]
    ELSE IF Len(token) > 2 \/ ~token[2].valid THEN [result |-> "validation"]
    ELSE IF ~Deserializable(token[1].data) THEN [result |-> "internal"]
    ELSE IF Deserialize(token[1].data).expires_at < now_ THEN [result |-> "validation"]
    ELSE [result |-> "ok", challenge |-> Deserialize(token[1].data)]

\* a verifier for which a token is expired in its last second already
verify_and_decode_challenge_Early(secret, token, now_) ==
    IF Len(token) < 2 THEN [result |-> "validation"]
    ELSE IF ~token[1].valid THEN [result |-> "validation"]
    ELSE IF Len(token) > 2 \/ ~token[2].valid THEN [result |-> "validation"]
    ELSE IF token[2].data # HmacSha256(secret, token[1].data) THEN [result |-> "validation"]
    ELSE IF ~Deserializable(token[1].data) THEN [result |-> "internal"]
    ELSE IF Deserialize(token[1].data).expires_at <= now_ THEN [result |-> "validation"]
    ELSE [result |-> "ok", challenge |-> Deserialize(token[1].data)]

\* split_once('.') leaves every later '.' in the signature part, which then
\* is not base64
verify_and_decode_challenge(secret, token, now_) ==
    IF Len(token) < 2 THEN [result |-> "validation"]
    ELSE IF ~token[1].valid THEN [result |-> "validation"]
    ELSE IF Len(token) > 2 \/ ~token[2].valid THEN [result |-> "validation"]
    ELSE IF token[2].data # HmacSha256(secret, token[1].data) THEN [result |-> "validation"]
    ELSE IF ~Deserializable(token[1].data) THEN [result |-> "internal"]
    ELSE IF Deserialize(token[1].data).expires_at < now_ THEN [result |-> "validation"]
    ELSE [result |-> "ok", challenge |-> Deserialize(token[1].data)]

(***************************************************************************)
(* websocket/hub.rs: NotificationHub                                       *)
(***************************************************************************)
\* the DashMap entry of a user is absent, or the Vec of the conn ids, each
\* with the sender of channels[conn_id]

\* Vec::retain
RECURSIVE Retain(_, _)
Retain(senders, keep) ==
    IF senders = <<>> THEN <<>>
    ELSE IF Head(senders) \in keep THEN <<Head(senders)>> \o Retain(Tail(senders), keep)
    ELSE Retain(Tail(senders), keep)

SendersOf(conns, user_id) == {conns[user_id].senders[i] : i \in DOMAIN conns[user_id].senders}

\* NotificationHub::subscribe: fetch_add on next_conn_id, a new channel, and
\* the sender pushed onto the user's list (entry(user_id).or_default())
subscribe(conns, chans, next, user_id) ==
    [connections |-> [conns EXCEPT ![user_id] =
                         [present |-> TRUE, senders |-> Append(@.senders, next)]],
     channels |-> Append(chans, [open |-> TRUE, queue |-> <<>>,
                                 owner |-> user_id, unsubscribed |-> FALSE]),
     next_conn_id |-> next + 1,
     conn_id |-> next]

\* a counter read that does not advance the counter
fetch_add_Stale(next) == [next_conn_id |-> next, conn_id |-> next]

\* self.next_conn_id.fetch_add(1, Ordering::Relaxed): one atomic
\* read-modify-write returning the value before it
fetch_add(next) == [next_conn_id |-> next + 1, conn_id |-> next]

\* self.connections.entry(user_id).or_default().push((conn_id, tx))
push(conns, user_id, conn_id) ==
    [conns EXCEPT ![user_id] = [present |-> TRUE, senders |-> Append(@.senders, conn_id)]]

\* self.connections.remove(&user_id) left out
remove_Nothing(conns, user_id) == conns

\* self.connections.remove(&user_id): whatever the list holds by now
remove(conns, user_id) == [conns EXCEPT ![user_id] = NoEntry]

\* NotificationHub::unsubscribe up to drop(senders): under the entry's lock,
\* retain the senders with another id and see whether the list is empty
unsubscribe_retain(conns, user_id, conn_id) ==
    IF ~conns[user_id].present THEN [connections |-> conns, emptied |-> FALSE]
    ELSE LET senders == Retain(conns[user_id].senders,
                               SendersOf(conns, user_id) \ {conn_id})
         IN  [connections |-> [conns EXCEPT ![user_id].senders = senders],
              emptied |-> senders = <<>>]

\* NotificationHub::unsubscribe, run without another task in between
unsubscribe(conns, user_id, conn_id) ==
    LET r == unsubscribe_retain(conns, user_id, conn_id)
    IN  IF r.emptied THEN remove(r.connections, user_id) ELSE r.connections

\* a send that reaches the senders of every user
send_to_user_retain_Broadcast(conns, chans, user_id, message) ==
    IF ~conns[user_id].present
    THEN [connections |-> conns, channels |-> chans, emptied |-> FALSE]
    ELSE LET live == {c \in SendersOf(conns, user_id) : chans[c].open}
             senders == Retain(conns[user_id].senders, live)
             all == UNION {SendersOf(conns, u) : u \in Users}
         IN  [connections |-> [conns EXCEPT ![user_id].senders = senders],
              channels |-> [c \in DOMAIN chans |->
                              IF c \in all /\ chans[c].open
                              THEN [chans[c] EXCEPT !.queue = Append(@, message)]
                              ELSE chans[c]],
              emptied |-> senders = <<>>]

\* NotificationHub::send_to_user up to drop(senders): under the entry's
\* lock, send to each sender and retain those whose send succeeded
send_to_user_retain(conns, chans, user_id, message) ==
    IF ~conns[user_id].present
    THEN [connections |-> conns, channels |-> chans, emptied |-> FALSE]
    ELSE LET live == {c \in SendersOf(conns, user_id) : chans[c].open}
             senders == Retain(conns[user_id].senders, live)
         IN  [connections |-> [conns EXCEPT ![user_id].senders = senders],
              channels |-> [c \in DOMAIN chans |->
                              IF c \in live THEN [chans[c] EXCEPT !.queue = Append(@, message)]
                              ELSE chans[c]],
              emptied |-> senders = <<>>]

\* sender.send(message).is_ok() exactly when the receiver still exists
send_to_user(conns, chans, user_id, message) ==
    IF ~conns[user_id].present THEN [connections |-> conns, channels |-> chans]
    ELSE LET live == {c \in SendersOf(conns, user_id) : chans[c].open}
             senders == Retain(conns[user_id].senders, live)
         IN  [connections |-> [conns EXCEPT ![user_id] =
                                  IF senders = <<>> THEN NoEntry
                                  ELSE [present |-> TRUE, senders |-> senders]],
              channels |-> [c \in DOMAIN chans |->
                              IF c \in live THEN [chans[c] EXCEPT !.queue = Append(@, message)]
                              ELSE chans[c]]]

(***************************************************************************)
(* services/notification.rs: NotificationService::notify                   *)
(***************************************************************************)
notify(ns, nid, conns, chans, user_id, actor_id, kind, t) ==
    IF user_id = actor_id
    THEN [notifications |-> ns, next_notification_id |-> nid,
          connections |-> conns, channels |-> chans]
    ELSE LET saved == [id |-> nid, user_id |-> user_id, actor_id |-> actor_id,
                       kind |-> kind, target |-> t, is_read |-> FALSE]
             json == [id |-> saved.id, kind |-> saved.kind, target |-> saved.target]
             sent == send_to_user(conns, chans, user_id, json)
         IN  [notifications |-> ns \cup {saved}, next_notification_id |-> nid + 1,
              connections |-> sent.connections, channels |-> sent.channels]

(***************************************************************************)
(* VoteService::set_vote, the operation handlers/vote.rs calls              *)
(***************************************************************************)
VoteValues == {-1, 0, 1}

\* the upsert of step 3: update the row of (user, target), insert when absent
UpsertVote(vs, id, u, t, v) ==
    IF VoteRows(vs, u, t) = {} THEN InsertVote(vs, id, u, t, v)
    ELSE {IF r.user_id = u /\ r.target = t THEN [r EXCEPT !.value = v] ELSE r : r \in vs}

set_vote(ct, vs, id, user_id, t, new_value) ==
    LET same == [content |-> ct, votes |-> vs, next_vote_id |-> id,
                 old_value |-> 0, new_value |-> 0]
    IN  IF new_value \notin VoteValues THEN same @@ [result |-> "validation"]
        ELSE IF ~FindTarget(ct, t) THEN same @@ [result |-> "not_found"]
        ELSE LET old_value == CurrentVote(vs, user_id, t)
                 delta_up == Bit(new_value = 1) - Bit(old_value = 1)
                 delta_down == Bit(new_value = -1) - Bit(old_value = -1)
                 inserts == new_value # 0 /\ VoteRows(vs, user_id, t) = {}
             IN  [content |-> [ct EXCEPT ![t] =
                                  [@ EXCEPT !.upvotes = Greatest(@ + delta_up, 0),
                                            !.downvotes = Greatest(@ + delta_down, 0)]],
                  votes |-> IF new_value = 0 THEN vs \ VoteRows(vs, user_id, t)
                            ELSE UpsertVote(vs, id, user_id, t, new_value),
                  next_vote_id |-> IF inserts THEN id + 1 ELSE id,
                  old_value |-> old_value, new_value |-> new_value,
                  result |-> "ok"]

(***************************************************************************)
(* handlers/pow.rs and handlers/vote.rs                                    *)
(***************************************************************************)
Actions == {"vote", "edit"}

\* the PowChallenge create_pow_challenge builds at time t
NewChallenge(user_id, action, target_type, target_id, t, salt) ==
    [v |-> PowConfig.version, action |-> action, target_type |-> target_type,
     target_id |-> target_id, user_id |-> user_id, issued_at |-> t,
     expires_at |-> t + PowConfig.ttl_seconds, difficulty |-> PowConfig.difficulty,
     salt |-> salt]

create_pow_challenge(user_id, payload, t, salt) ==
    LET challenge == NewChallenge(user_id, payload.action, payload.target_type,
                                  payload.target_id, t, salt)
    IN  [pow_token |-> sign_challenge(PowConfig.secret, challenge),
         difficulty |-> challenge.difficulty,
         expires_at |-> challenge.expires_at]

\* the challenge requests whose tokens a client may hold when it votes as
\* user_id on (target_type, id) at time t: its own request for this vote,
\* made now or earlier, and requests made now that differ from it in the
\* user, the action, the target type or the target id
IssueCalls(user_id, target_type, id, t) ==
    LET call(u, a, ty, i, s) ==
            [user_id |-> u, at |-> s,
             payload |-> [action |-> a, target_type |-> ty, target_id |-> i]]
    IN  {call(user_id, "vote", target_type, id, s) : s \in 0..t}
        \cup {call(u, "vote", target_type, id, t) : u \in Users}
        \cup {call(user_id, a, target_type, id, t) : a \in Actions}
        \cup {call(user_id, "vote", ty, id, t) : ty \in TargetTypes}
        \cup {call(user_id, "vote", target_type, i, t) : i \in Ids}

IssuedTokens(user_id, target_type, id, t) ==
    {create_pow_challenge(c.user_id, c.payload, c.at, salt).pow_token :
        c \in IssueCalls(user_id, target_type, id, t), salt \in Salts}

\* tokens a client makes up from the one issued for this vote: signed with
\* a guessed secret, the expiry edited under the old signature, and text
\* that is no token
ForgedTokens(user_id, target_type, id) ==
    LET base == {NewChallenge(user_id, "vote", target_type, id, 0, salt) : salt \in Salts}
    IN  {sign_challenge(OtherSecret, c) : c \in base}
        \cup {<<Encode(Serialize([c EXCEPT !.expires_at = MaxTime + 1])),
                Encode(HmacSha256(PowConfig.secret, Serialize(c)))>> : c \in base}
        \cup {<<Encode(Serialize(c))>> : c \in base}
        \cup {<<Encode(Serialize(c)), NotBase64>> : c \in base}
        \cup {<<NotBase64, Encode(HmacSha256(PowConfig.secret, Serialize(c)))>> : c \in base}

\* the (pow_token, pow_nonce) pairs of the requests: the issued tokens with
\* the one-byte nonces, the forged ones with one nonce, the token issued now
\* for this vote also with the empty and the oversized nonce
Proofs(user_id, target_type, id, t) ==
    (IssuedTokens(user_id, target_type, id, t) \X {"0", "1"})
    \cup (ForgedTokens(user_id, target_type, id) \X {"1"})
    \cup ({create_pow_challenge(user_id,
                [action |-> "vote", target_type |-> target_type, target_id |-> id],
                t, salt).pow_token : salt \in Salts} \X Nonces)

VoteRequests(user_id, target_type, id, t) ==
    {[value |-> v, pow_token |-> p[1], pow_nonce |-> p[2]] :
        v \in VoteValues, p \in Proofs(user_id, target_type, id, t)}

\* a binding check that forgets whose token it is
PowTokenMismatch_AnyUser(challenge, user_id, target_type, id) ==
    \/ challenge.action # "vote"
    \/ challenge.target_type # target_type
    \/ challenge.target_id # id

\* vote.rs lines 61-65 and 141-145
PowTokenMismatch(challenge, user_id, target_type, id) ==
    \/ challenge.user_id # user_id
    \/ challenge.action # "vote"
    \/ challenge.target_type # target_type
    \/ challenge.target_id # id

\* a gate that accepts any nonce
PowGate_NoProof(target_type, user_id, id, payload, now_) ==
    LET decoded == verify_and_decode_challenge(PowConfig.secret, payload.pow_token, now_)
    IN  IF decoded.result # "ok" THEN decoded.result
        ELSE IF PowTokenMismatch(decoded.challenge, user_id, target_type, id) THEN "validation"
        ELSE "ok"

\* a gate that takes a token only in the second it was issued
PowGate_FreshOnly(target_type, user_id, id, payload, now_) ==
    LET decoded == verify_and_decode_challenge(PowConfig.secret, payload.pow_token, now_)
    IN  IF decoded.result # "ok" THEN decoded.result
        ELSE IF decoded.challenge.issued_at < now_ THEN "validation"
        ELSE IF PowTokenMismatch(decoded.challenge, user_id, target_type, id) THEN "validation"
        ELSE validate_pow_solution(decoded.challenge, payload.pow_nonce)

\* vote.rs lines 59-70 and 139-150: the checks before the service call
PowGate(target_type, user_id, id, payload, now_) ==
    LET decoded == verify_and_decode_challenge(PowConfig.secret, payload.pow_token, now_)
    IN  IF decoded.result # "ok" THEN decoded.result
        ELSE IF PowTokenMismatch(decoded.challenge, user_id, target_type, id) THEN "validation"
        ELSE validate_pow_solution(decoded.challenge, payload.pow_nonce)

\* a table that credits every request arriving at an upvote
PointsDelta_EveryUpvote(old_value, new_value) ==
    IF new_value = 1 THEN 1
    ELSE IF <<old_value, new_value>> \in {<<1, 0>>, <<1, -1>>} THEN -1
    ELSE 0

\* vote.rs lines 76-80 and 156-160
PointsDelta(old_value, new_value) ==
    IF <<old_value, new_value>> \in {<<0, 1>>, <<-1, 1>>} THEN 1
    ELSE IF <<old_value, new_value>> \in {<<1, 0>>, <<1, -1>>} THEN -1
    ELSE 0

\* what the database does to the two side effects of one vote request
NoFaults == [points |-> "ok", notify |-> "ok"]
HandlerFaults ==
    {NoFaults,
     [points |-> "no_author_row", notify |-> "ok"],
     [points |-> "ok", notify |-> "db_error"],
     [points |-> "insert_fails", notify |-> "db_error"]}

\* a handler that returns the error of apply_vote_points or notify
Respond_Propagates(change, points_result, notify_result) ==
    IF points_result # "ok" THEN [result |-> points_result, value |-> 0]
    ELSE IF notify_result # "ok" THEN [result |-> notify_result, value |-> 0]
    ELSE [result |-> "ok", value |-> change.new_value]

\* lines 84-89 (if let Err(e) .. warn!), 97-107 (let _ =) and 110-114
Respond(change, points_result, notify_result) ==
    [result |-> "ok", value |-> change.new_value]

\* the tables and the hub after vote_post / vote_comment
vote_handler_under(target_type, kind, user_id, id, payload, now_, faults) ==
    LET t == <<target_type, id>>
        same == [content |-> content, votes |-> votes, next_vote_id |-> next_vote_id,
                 karma |-> karma, ledger |-> ledger, next_ledger_id |-> next_ledger_id,
                 notifications |-> notifications,
                 next_notification_id |-> next_notification_id,
                 connections |-> connections, channels |-> channels, value |-> 0,
                 points |-> "none", notify |-> "none"]
        gate == PowGate(target_type, user_id, id, payload, now_)
    IN  IF gate # "ok" THEN same @@ [result |-> gate, gate |-> gate]
        ELSE LET change == set_vote(content, votes, next_vote_id, user_id, t, payload.value)
             IN  IF change.result # "ok" THEN same @@ [result |-> change.result, gate |-> gate]
                 ELSE LET points_delta == PointsDelta(change.old_value, change.new_value)
                          points == IF points_delta # 0
                                    THEN apply_vote_points_txn(change.content, karma, ledger,
                                             next_ledger_id, user_id, t, points_delta,
                                             faults.points)
                                    ELSE [karma |-> karma, ledger |-> ledger,
                                          next_ledger_id |-> next_ledger_id,
                                          result |-> "none"]
                          unsent == [notifications |-> notifications,
                                     next_notification_id |-> next_notification_id,
                                     connections |-> connections, channels |-> channels]
                          notif == IF change.new_value # 0 /\ FindTarget(change.content, t)
                                   THEN IF faults.notify = "ok"
                                             \/ change.content[t].user_id = user_id
                                        THEN notify(notifications, next_notification_id,
                                                 connections, channels,
                                                 change.content[t].user_id, user_id, kind, t)
                                               @@ [result |-> "ok"]
                                        \* model.insert(&self.db).await? returns early
                                        ELSE unsent @@ [result |-> "internal"]
                                   ELSE unsent @@ [result |-> "none"]
                          response == Respond(change, points.result, notif.result)
                      IN  [content |-> change.content, votes |-> change.votes,
                           next_vote_id |-> change.next_vote_id,
                           karma |-> points.karma, ledger |-> points.ledger,
                           next_ledger_id |-> points.next_ledger_id,
                           notifications |-> notif.notifications,
                           next_notification_id |-> notif.next_notification_id,
                           connections |-> notif.connections, channels |-> notif.channels,
                           value |-> response.value, result |-> response.result,
                           points |-> points.result, notify |-> notif.result,
                           gate |-> gate]

\* vote_post / vote_comment on a database that answers
vote_handler(target_type, kind, user_id, id, payload, now_) ==
    vote_handler_under(target_type, kind, user_id, id, payload, now_, NoFaults)

(***************************************************************************)
(* The vote endpoints behind the proof-of-work gate                        *)
(***************************************************************************)
PathIds == {1}

\* the ids the requests of a run may draw from the three sequences
MaxHandlerVoteId == 1
MaxHandlerLedgerId == 1
MaxNotificationId == 1

\* what a request's token and nonce are, judged apart from the handler:
\* the first of signature, expiry, proof and binding that does not hold
TokenSigned(token) ==
    /\ Len(token) = 2
    /\ token[1].valid /\ token[2].valid
    /\ token[2].data = <<"hmac", ServerSecret, token[1].data>>

\* every challenge the server can have signed, with the nonces that solve it
ServerChallenges ==
    {NewChallenge(u, a, ty, id, s, salt) :
        u \in Users, a \in Actions, ty \in TargetTypes, id \in Ids,
        s \in 0..MaxTime, salt \in Salts}

Solutions ==
    [c \in ServerChallenges |->
        {n \in Nonces :
            /\ Len(StrBytes(n)) \in 1..MaxNonceLen
            /\ has_leading_zero_bits(Sha256(PowPreimage(c, n)), c.difficulty)}]

Verdict(token, nonce, user_id, target_type, id, t) ==
    IF ~TokenSigned(token) THEN "unsigned"
    ELSE LET c == Deserialize(token[1].data)
         IN  IF c.expires_at < t THEN "expired"
             ELSE IF nonce \notin Solutions[c] THEN "unsolved"
             ELSE IF <<c.user_id, c.action, c.target_type, c.target_id>>
                        # <<user_id, "vote", target_type, id>>
                  THEN "misbound"
             ELSE "valid"

InitHandler ==
    /\ content = InitContent
    /\ votes = {}
    /\ next_vote_id = 1
    /\ last = [op |-> "none", result |-> "none", verdict |-> "none", ret |-> 0]
    /\ calls = <<>>
    /\ start = <<>>
    /\ round = 0
    /\ karma = [u \in Users |-> 0]
    /\ ledger = {}
    /\ next_ledger_id = 1
    /\ now = 0
    /\ notifications = {}
    /\ next_notification_id = 1
    /\ NoHub

\* POST /api/v1/pow/challenge
CreatePowChallenge(user_id, payload) ==
    \E salt \in Salts :
        LET r == create_pow_challenge(user_id, payload, now, salt)
        IN  /\ last' = [op |-> "create_pow_challenge", result |-> "ok",
                        verdict |-> "none", ret |-> r.expires_at]
            /\ UNCHANGED <<voteVars, concVars, pointsVars, now, notifyVars, hubVars>>

HandleVote(op, target_type, kind, user_id, id, payload) ==
    \E r \in {vote_handler(target_type, kind, user_id, id, payload, now)} :
        /\ r.next_vote_id <= MaxHandlerVoteId + 1
        /\ r.next_ledger_id <= MaxHandlerLedgerId + 1
        /\ r.next_notification_id <= MaxNotificationId + 1
        /\ content' = r.content
        /\ votes' = r.votes
        /\ next_vote_id' = r.next_vote_id
        /\ karma' = r.karma
        /\ ledger' = r.ledger
        /\ next_ledger_id' = r.next_ledger_id
        /\ notifications' = r.notifications
        /\ next_notification_id' = r.next_notification_id
        /\ connections' = r.connections
        /\ channels' = r.channels
        /\ last' = [op |-> op, result |-> r.result,
                    verdict |-> Verdict(payload.pow_token, payload.pow_nonce,
                                        user_id, target_type, id, now),
                    ret |-> r.value]
        /\ UNCHANGED <<concVars, now, next_conn_id>>

\* POST /api/v1/posts/{id}/vote
VotePost(user_id, id, payload) ==
    HandleVote("vote", "post", "vote_on_post", user_id, id, payload)

\* POST /api/v1/comments/{id}/vote
VoteComment(user_id, id, payload) ==
    HandleVote("vote", "comment", "vote_on_comment", user_id, id, payload)

\* the clock advances
Tick ==
    /\ now < MaxTime
    /\ now' = now + 1
    /\ UNCHANGED <<voteVars, concVars, pointsVars, notifyVars, hubVars, last>>

NextHandler ==
    \/ \E u \in Users, a \in Actions, ty \in TargetTypes, id \in Ids :
          CreatePowChallenge(u, [action |-> a, target_type |-> ty, target_id |-> id])
    \/ \E u \in Users, id \in PathIds :
          \E p \in VoteRequests(u, "post", id, now) : VotePost(u, id, p)
    \/ \E u \in Users, id \in PathIds :
          \E p \in VoteRequests(u, "comment", id, now) : VoteComment(u, id, p)
    \/ Tick

SpecHandler == InitHandler /\ [][NextHandler]_vars

HandlerState == <<voteVars, pointsVars, notifyVars, hubVars>>

C5_MisboundTokenRejected ==
    [][/\ (last'.op = "vote" /\ last'.verdict = "misbound")
            => (last'.result = "validation" /\ UNCHANGED HandlerState)
       /\ (last'.op = "vote" /\ last'.result = "ok") => last'.verdict = "valid"]_vars

C5_Witness ==
    /\ last.op = "vote"
    /\ last.verdict = "misbound"
    /\ last.result = "validation"
    /\ votes # {}

(***************************************************************************)
(* The value 0 in VoteService::vote (SpecVote)                             *)
(***************************************************************************)
\* C11: a vote call with value 0 on an existing post or comment is accepted
\* and leaves the user without a vote row on that target.
C11_ZeroVoteAccepted ==
    (/\ last.op = "vote"
     /\ last.value = 0
     /\ last.target \in Targets
     /\ content[last.target].exists) =>
        /\ last.result = "ok"
        /\ VoteRows(votes, last.user_id, last.target) = {}

(***************************************************************************)
(* Rollback of a reference's points (SpecPoints)                           *)
(***************************************************************************)
\* C12: a rollback_by_ref call for a reference that holds N ledger entries
\* returns N, deletes exactly those N rows, and takes from each user's karma
\* exactly the deltas those rows credited to that user, so that with C3 the
\* karma is back at its value before the awards; rows and karma of other
\* references stay.
C12_RollbackUndoesAwards ==
    [][last'.op = "rollback_by_ref" =>
        LET rows == LedgerRows(ledger, last'.ref)
        IN  /\ last'.result = "ok"
            /\ last'.ret = Cardinality(rows)
            /\ ledger' = ledger \ rows
            /\ LedgerRows(ledger', last'.ref) = {}
            /\ \A u \in Users :
                  karma'[u] = karma[u] - SumDeltas(LedgerOf(rows, u))]_vars

\* two awards on one reference were rolled back while another reference
\* still holds an entry
C12_Witness ==
    /\ last.op = "rollback_by_ref"
    /\ last.ret >= 2
    /\ LedgerRows(ledger, last.ref) = {}
    /\ \E e \in ledger : e.ref # last.ref

\* C13: a rollback_by_ref call for a reference that the call before it already
\* rolled back, with no award in between, succeeds, returns 0 and changes no
\* karma and no ledger row, whether or not the referenced post or comment
\* still exists.
C13_RollbackIdempotent ==
    [][(last'.op = "rollback_by_ref" /\ RolledBack(last, last'.ref)) =>
          /\ last'.result = "ok"
          /\ last'.ret = 0
          /\ karma' = karma
          /\ ledger' = ledger]_vars

C13_Witness ==
    /\ last.op = "rollback_by_ref"
    /\ last.again
    /\ last.result = "ok"
    /\ last.ret = 0
    /\ last.ref \in Targets
    /\ ~content[last.ref].exists
    /\ ledger # {}

\* C15: an administrator's delete whose points rollback fails does not report
\* success.
C15_RollbackFailureFailsModeration ==
    (/\ last.op \in {"admin_delete_post", "admin_delete_comment"}
     /\ last.rollback = "internal") => last.result # "ok"

\* user_points_ledger.id values handed out while transactions may fail
MaxTxnLedgerId == 2

\* apply_vote_points on a database that may fail the call's transaction
ApplyVotePointsUnder(actor, t, d, db) ==
    LET r == apply_vote_points_txn(content, karma, ledger, next_ledger_id, actor, t, d, db)
    IN /\ r.next_ledger_id <= MaxTxnLedgerId + 1
       /\ karma' = r.karma
       /\ ledger' = r.ledger
       /\ next_ledger_id' = r.next_ledger_id
       /\ last' = [op |-> "apply_vote_points", ref |-> t, result |-> r.result, ret |-> 0,
                   db |-> db, txn |-> r.txn]
       /\ UNCHANGED <<voteVars, concVars, now, notifyVars, hubVars>>

NextTxn ==
    \/ \E actor \in Users, t \in Requests, d \in PointInputs, db \in TxnOutcomes :
          ApplyVotePointsUnder(actor, t, d, db)
    \/ \E ref \in Requests : RollbackByRef(ref)

SpecTxn == InitPoints /\ [][NextTxn]_vars

\* C14: an apply_vote_points call writes its ledger entry and its karma
\* increment together or not at all: a call whose transaction meets a failing
\* statement or an UPDATE matching no user row returns an error, a call that
\* returns an error leaves ledger and karma as they were, and every call
\* raises each user's karma by exactly the deltas of the ledger entries it
\* added.
C14_LedgerAndKarmaTogether ==
    [][last'.op = "apply_vote_points" =>
          LET added == ledger' \ ledger
          IN  /\ (last'.txn /\ last'.db # "ok") => last'.result \in {"internal", "not_found"}
              /\ last'.result # "ok" => (ledger' = ledger /\ karma' = karma)
              /\ ledger \subseteq ledger'
              /\ Cardinality(added) <= 1
              /\ \A u \in Users : karma'[u] = karma[u] + SumDeltas(LedgerOf(added, u))]_vars

C14_Witness ==
    /\ last.op = "apply_vote_points"
    /\ last.txn
    /\ last.db = "no_author_row"
    /\ last.result = "not_found"
    /\ LedgerRows(ledger, last.ref) # {}
    /\ next_ledger_id > Cardinality(ledger) + 1

(***************************************************************************)
(* The vote endpoints when the database fails a side effect                *)
(***************************************************************************)
\* the ids the requests of a run may draw from the three sequences together
MaxFaultRows == 2

HandleVoteUnder(target_type, kind, user_id, id, payload, faults) ==
    \E r \in {vote_handler_under(target_type, kind, user_id, id, payload, now, faults)} :
        /\ (r.next_vote_id - 1) + (r.next_ledger_id - 1) + (r.next_notification_id - 1)
              <= MaxFaultRows
        /\ content' = r.content
        /\ votes' = r.votes
        /\ next_vote_id' = r.next_vote_id
        /\ karma' = r.karma
        /\ ledger' = r.ledger
        /\ next_ledger_id' = r.next_ledger_id
        /\ notifications' = r.notifications
        /\ next_notification_id' = r.next_notification_id
        /\ connections' = r.connections
        /\ channels' = r.channels
        /\ last' = [op |-> "vote", result |-> r.result, gate |-> r.gate,
                    ret |-> r.value, user_id |-> user_id,
                    target |-> <<target_type, id>>, value |-> payload.value,
                    points |-> r.points, notify |-> r.notify]
        /\ UNCHANGED <<concVars, now, next_conn_id>>

VotePostUnder(user_id, id, payload, faults) ==
    HandleVoteUnder("post", "vote_on_post", user_id, id, payload, faults)

VoteCommentUnder(user_id, id, payload, faults) ==
    HandleVoteUnder("comment", "vote_on_comment", user_id, id, payload, faults)

\* the requests of user_id on (target_type, id) at time t that carry the
\* token issued now for this vote, with each one-byte nonce
FaultRequests(user_id, target_type, id, t) ==
    LET own == {create_pow_challenge(user_id,
                    [action |-> "vote", target_type |-> target_type, target_id |-> id],
                    t, salt).pow_token : salt \in Salts}
    IN  {[value |-> v, pow_token |-> p[1], pow_nonce |-> p[2]] :
            v \in VoteValues, p \in own \X {"0", "1"}}

NextFaults ==
    \/ \E u \in Users, id \in PathIds, f \in HandlerFaults :
          \E p \in FaultRequests(u, "post", id, now) : VotePostUnder(u, id, p, f)
    \/ \E u \in Users, id \in PathIds, f \in HandlerFaults :
          \E p \in FaultRequests(u, "comment", id, now) : VoteCommentUnder(u, id, p, f)

SpecFaults == InitHandler /\ [][NextFaults]_vars

\* C16: a vote request that passes the proof-of-work gate and whose vote mutation succeeds
\* is answered with the new value and leaves the vote row and counters as the
\* mutation committed them, whatever apply_vote_points and the notification
\* step do; a failed apply_vote_points writes no ledger row and no karma; and
\* a request whose vote mutation did not complete awards no points and sends
\* no notification.
C16_SideEffectFailuresNonFatal ==
    [][last'.op = "vote" =>
          LET change == set_vote(content, votes, next_vote_id,
                                 last'.user_id, last'.target, last'.value)
          IN  /\ (last'.gate = "ok" /\ change.result = "ok") =>
                    /\ last'.result = "ok"
                    /\ last'.ret = change.new_value
                    /\ content' = change.content
                    /\ votes' = change.votes
                    /\ next_vote_id' = change.next_vote_id
              /\ last'.points \in {"internal", "not_found"} =>
                    (karma' = karma /\ ledger' = ledger)
              /\ last'.result # "ok" => UNCHANGED <<pointsVars, notifyVars, hubVars>>]_vars

\* an upvote is kept and answered although both side effects failed
C16_Witness ==
    /\ last.op = "vote"
    /\ last.result = "ok"
    /\ last.ret = 1
    /\ last.points = "internal"
    /\ last.notify = "internal"
    /\ \E r \in VoteRows(votes, last.user_id, last.target) : r.value = 1
    /\ content[last.target].upvotes = 1
    /\ ledger = {} /\ notifications = {}

(***************************************************************************)
(* utils/pow.rs: sign_challenge and verify_and_decode_challenge as a codec *)
(***************************************************************************)
\* the challenges a caller of sign_challenge may pass: each field takes more
\* than one value, and the expiry lies before, at and after the issue time
CodecChallenges ==
    {[v |-> ver, action |-> a, target_type |-> ty, target_id |-> id, user_id |-> u,
      issued_at |-> 1, expires_at |-> x, difficulty |-> d, salt |-> salt] :
        ver \in {PowConfig.version}, a \in Actions, ty \in TargetTypes, id \in {1},
        u \in Users, x \in 0..MaxTime + 1, d \in {PowConfig.difficulty, 20},
        salt \in Salts}

\* what a holder does to a token before presenting it
Tamperings == {"none", "payload", "signature", "truncated"}

Tamper(token, how) ==
    LET c == Deserialize(token[1].data)
    IN  CASE how = "payload" ->
                 \* a later expiry under the old signature
                 <<Encode(Serialize([c EXCEPT !.expires_at = @ + 1])), token[2]>>
          [] how = "signature" ->
                 \* the payload signed again with a guessed key
                 <<token[1], Encode(HmacSha256(OtherSecret, token[1].data))>>
          [] how = "truncated" ->
                 \* bytes that are no PowChallenge under the old signature
                 <<Encode(SubSeq(token[1].data, 1, 8)), token[2]>>
          [] OTHER -> token

SignChallenge(c) ==
    /\ last' = [op |-> "sign", challenge |-> c,
                token |-> sign_challenge(PowConfig.secret, c),
                result |-> "ok", ret |-> 0]
    /\ UNCHANGED <<voteVars, concVars, pointsVars, notifyVars, hubVars, now>>

\* the token signed last is presented, as it is or tampered with, to a
\* verifier holding secret
VerifyChallenge(how, secret) ==
    /\ last.op \in {"sign", "verify"}
    /\ LET presented == Tamper(last.token, how)
           r == verify_and_decode_challenge(secret, presented, now)
       IN  last' = [op |-> "verify", challenge |-> last.challenge, token |-> last.token,
                    how |-> how, secret |-> secret, presented |-> presented,
                    at |-> now, result |-> r.result,
                    decoded |-> IF r.result = "ok" THEN {r.challenge} ELSE {},
                    ret |-> 0]
    /\ UNCHANGED <<voteVars, concVars, pointsVars, notifyVars, hubVars, now>>

NextCodec ==
    \/ \E c \in CodecChallenges : SignChallenge(c)
    \/ \E how \in Tamperings, secret \in {ServerSecret, OtherSecret} :
          VerifyChallenge(how, secret)
    \/ Tick

SpecCodec == InitHandler /\ [][NextCodec]_vars

C18_TamperedTokenRejected ==
    last.op = "verify" =>
        /\ last.how \in {"payload", "truncated"} => last.result # "ok"
        /\ (last.how = "signature" /\ last.secret = PowConfig.secret) => last.result # "ok"
        /\ (last.how = "none" /\ last.secret # PowConfig.secret) => last.result # "ok"
        /\ last.result = "ok" =>
              /\ Len(last.presented) = 2
              /\ last.presented[1].valid /\ last.presented[2].valid
              /\ last.presented[2].data
                    = HmacSha256(last.secret, last.presented[1].data)
        /\ (/\ Len(last.presented) = 2
            /\ last.presented[2].data
                  # HmacSha256(last.secret, last.presented[1].data))
              => (last.result = "validation" /\ last.decoded = {})

\* an unexpired token with a later expiry under the old signature, and one
\* whose payload is no challenge at all, are both turned away as invalid
C18_Witness ==
    /\ last.op = "verify"
    /\ last.how = "truncated"
    /\ last.secret = PowConfig.secret
    /\ ~Deserializable(last.presented[1].data)
    /\ last.challenge.expires_at > last.at
    /\ last.result = "validation"

\* C19: a correctly signed token is rejected when its expires_at is less than
\* the current time and passes when expires_at is the current time or later;
\* a token rejected for expiry is rejected at every later time.
C19_ExpiryBoundary ==
    (/\ last.op = "verify"
     /\ last.how = "none"
     /\ last.secret = PowConfig.secret) =>
        /\ last.challenge.expires_at < last.at => last.result = "validation"
        /\ last.challenge.expires_at >= last.at => last.result = "ok"
        /\ last.result = "validation" =>
              \A t \in last.at..(MaxTime + 2) :
                  verify_and_decode_challenge(last.secret, last.presented, t).result
                      = "validation"

\* the same token passed in its last second and fails in the next
C19_Witness ==
    /\ last.op = "verify"
    /\ last.how = "none"
    /\ last.secret = PowConfig.secret
    /\ last.result = "validation"
    /\ last.challenge.expires_at = last.at - 1
    /\ verify_and_decode_challenge(last.secret, last.presented,
                                   last.challenge.expires_at).result = "ok"

(***************************************************************************)
(* utils/pow.rs: has_leading_zero_bits on its own                          *)
(***************************************************************************)
\* bits: u8
MaxBits == 255
\* the length of a SHA-256 digest, and the longest of the short slices
MaxDigestLen == 32
MaxShortLen == 2

\* byte values around the bit boundaries
SampleBytes == {1, 64, 127, 128, 255}

\* slices that are zero up to one byte and zero or all ones after it, of the
\* digest's length and of lengths too short for most difficulties
Digests ==
    {[i \in 1..n |-> 0] : n \in (0..MaxShortLen) \cup {MaxDigestLen}}
    \cup {[i \in 1..n |-> IF i < k THEN 0 ELSE IF i = k THEN b ELSE fill] :
            n \in (1..MaxShortLen) \cup {MaxDigestLen}, k \in 1..MaxDigestLen,
            b \in SampleBytes, fill \in {0, 255}}

\* bit i of the slice, counted from the most significant bit of byte one
BitOf(bytes, i) == (bytes[(i \div 8) + 1] \div (2 ^ (7 - (i % 8)))) % 2

InitBits ==
    /\ content = InitContent
    /\ votes = {}
    /\ next_vote_id = 1
    /\ last \in {[op |-> "digest", bytes |-> b, bits |-> d, result |-> "none", ret |-> 0] :
                    b \in Digests, d \in 0..MaxBits}
    /\ calls = <<>>
    /\ start = <<>>
    /\ round = 0
    /\ karma = [u \in Users |-> 0]
    /\ ledger = {}
    /\ next_ledger_id = 1
    /\ NoClock /\ NoNotifications /\ NoHub

HasLeadingZeroBits ==
    /\ last.op = "digest"
    /\ last' = [op |-> "has_leading_zero_bits", bytes |-> last.bytes, bits |-> last.bits,
                accepted |-> has_leading_zero_bits(last.bytes, last.bits),
                result |-> "ok", ret |-> 0]
    /\ UNCHANGED <<voteVars, concVars, pointsVars, notifyVars, hubVars, now>>

NextBits == HasLeadingZeroBits

SpecBits == InitBits /\ [][NextBits]_vars

\* C20: for every difficulty d in 0..255 and every slice, the check accepts
\* exactly when the slice has at least d bits and its first d bits are zero,
\* that is, when its first d/8 bytes are zero and, for d%8 # 0, the next
\* byte is below 2^(8 - d%8); a slice shorter than the bits required is
\* refused.
C20_LeadingZeroBitsExact ==
    last.op = "has_leading_zero_bits" =>
        LET bytes == last.bytes
            d == last.bits
            full == d \div 8
            rem == d % 8
        IN  /\ last.accepted <=>
                  /\ Len(bytes) * 8 >= d
                  /\ \A i \in 0..(d - 1) : BitOf(bytes, i) = 0
            /\ last.accepted <=>
                  /\ Len(bytes) >= full + (IF rem # 0 THEN 1 ELSE 0)
                  /\ \A j \in 1..full : bytes[j] = 0
                  /\ rem # 0 => bytes[full + 1] < 2 ^ (8 - rem)
            /\ Len(bytes) * 8 < d => ~last.accepted

\* for d = 9, [0x00, 0x7F] passes, [0x00, 0x80] fails, and a one-byte slice
\* is too short
C20_Witness ==
    /\ last.op = "has_leading_zero_bits"
    /\ last.bits = 9
    /\ last.bytes = <<0, 127>>
    /\ last.accepted
    /\ ~has_leading_zero_bits(<<0, 128>>, 9)
    /\ ~has_leading_zero_bits(<<0>>, 9)

(***************************************************************************)
(* utils/pow.rs: validate_pow_solution on its own                          *)
(***************************************************************************)
\* challenges of difficulty 0, 1 and 9
SolveChallenges ==
    {[c EXCEPT !.difficulty = d] : c \in CodecChallenges, d \in {0, 1, 9}}

SolveNonces == Nonces \cup {FullNonce}

InitSolve ==
    /\ content = InitContent
    /\ votes = {}
    /\ next_vote_id = 1
    /\ last \in {[op |-> "solution", challenge |-> c, nonce |-> n,
                  result |-> "none", ret |-> 0] :
                    c \in SolveChallenges, n \in SolveNonces}
    /\ calls = <<>>
    /\ start = <<>>
    /\ round = 0
    /\ karma = [u \in Users |-> 0]
    /\ ledger = {}
    /\ next_ledger_id = 1
    /\ NoClock /\ NoNotifications /\ NoHub

ValidatePowSolution ==
    /\ last.op = "solution"
    /\ last' = [op |-> "validate_pow_solution", challenge |-> last.challenge,
                nonce |-> last.nonce,
                result |-> validate_pow_solution(last.challenge, last.nonce),
                ret |-> 0]
    /\ UNCHANGED <<voteVars, concVars, pointsVars, notifyVars, hubVars, now>>

NextSolve == ValidatePowSolution

SpecSolve == InitSolve /\ [][NextSolve]_vars

\* C21 as stated: with difficulty 0, validate_pow_solution accepts any nonce.
C21_ZeroDifficultyAcceptsAny ==
    (last.op = "validate_pow_solution" /\ last.challenge.difficulty = 0)
        => last.result = "ok"

\* C21: with difficulty 0, validate_pow_solution accepts every nonce of 1 to
\* 128 bytes and rejects the empty nonce and every longer one.
C21_ZeroDifficultyAcceptsSized ==
    (last.op = "validate_pow_solution" /\ last.challenge.difficulty = 0) =>
        (last.result = "ok" <=> Len(StrBytes(last.nonce)) \in 1..MaxNonceLen)

\* a nonce of 128 bytes whose digest starts with a one bit passes at
\* difficulty 0
C21_Witness ==
    /\ last.op = "validate_pow_solution"
    /\ last.challenge.difficulty = 0
    /\ Len(StrBytes(last.nonce)) = MaxNonceLen
    /\ last.result = "ok"
    /\ ~has_leading_zero_bits(Sha256(PowPreimage(last.challenge, last.nonce)), 1)

(***************************************************************************)
(* The vote endpoints when a client presents an accepted proof again       *)
(***************************************************************************)
\* the ids the requests of a run may draw from the three sequences together
MaxReplayRows == 2

NoProof == [held |-> FALSE]

InitReplay ==
    /\ content = InitContent
    /\ votes = {}
    /\ next_vote_id = 1
    /\ last = [op |-> "none", result |-> "none", ret |-> 0, kept |-> NoProof]
    /\ calls = <<>>
    /\ start = <<>>
    /\ round = 0
    /\ karma = [u \in Users |-> 0]
    /\ ledger = {}
    /\ next_ledger_id = 1
    /\ now = 0
    /\ NoNotifications
    /\ NoHub

\* vote_post / vote_comment; the client keeps, or does not keep, the proof
\* of a request that was accepted
HandleVoteKeeping(op, target_type, kind, user_id, id, payload) ==
    \E r \in {vote_handler(target_type, kind, user_id, id, payload, now)} :
      \E keeps \in IF op = "vote" /\ r.result = "ok" THEN BOOLEAN ELSE {FALSE} :
        /\ (r.next_vote_id - 1) + (r.next_ledger_id - 1) + (r.next_notification_id - 1)
              <= MaxReplayRows
        /\ content' = r.content
        /\ votes' = r.votes
        /\ next_vote_id' = r.next_vote_id
        /\ karma' = r.karma
        /\ ledger' = r.ledger
        /\ next_ledger_id' = r.next_ledger_id
        /\ notifications' = r.notifications
        /\ next_notification_id' = r.next_notification_id
        /\ connections' = r.connections
        /\ channels' = r.channels
        \* the value sent and the vote it met are recorded for a replay
        /\ last' = [op |-> op, result |-> r.result,
                    ret |-> IF op = "replay" THEN r.value ELSE 0,
                    value |-> IF op = "replay" THEN payload.value ELSE 0,
                    old |-> IF op = "replay"
                            THEN CurrentVote(votes, user_id, <<target_type, id>>)
                            ELSE 0,
                    kept |-> IF keeps
                             THEN [held |-> TRUE, user_id |-> user_id,
                                   target_type |-> target_type, kind |-> kind,
                                   id |-> id, pow_token |-> payload.pow_token,
                                   pow_nonce |-> payload.pow_nonce]
                             ELSE last.kept]
        /\ UNCHANGED <<concVars, now, next_conn_id>>

VotePostKeeping(user_id, id, payload) ==
    HandleVoteKeeping("vote", "post", "vote_on_post", user_id, id, payload)

VoteCommentKeeping(user_id, id, payload) ==
    HandleVoteKeeping("vote", "comment", "vote_on_comment", user_id, id, payload)

\* the kept proof is sent again by its user for its target, with any value
VoteAgain(value) ==
    /\ last.kept.held
    /\ HandleVoteKeeping("replay", last.kept.target_type, last.kept.kind,
                         last.kept.user_id, last.kept.id,
                         [value |-> value, pow_token |-> last.kept.pow_token,
                          pow_nonce |-> last.kept.pow_nonce])

\* the clock advances
TickReplay ==
    /\ now < MaxTime
    /\ now' = now + 1
    /\ last' = [last EXCEPT !.op = "tick"]
    /\ UNCHANGED <<voteVars, concVars, pointsVars, notifyVars, hubVars>>

NextReplay ==
    \/ \E u \in Users, id \in PathIds :
          \E p \in FaultRequests(u, "post", id, now) : VotePostKeeping(u, id, p)
    \/ \E u \in Users, id \in PathIds :
          \E p \in FaultRequests(u, "comment", id, now) : VoteCommentKeeping(u, id, p)
    \/ \E v \in VoteValues : VoteAgain(v)
    \/ TickReplay

SpecReplay == InitReplay /\ [][NextReplay]_vars

\* C22: a (pow_token, pow_nonce) pair that was accepted for a vote request
\* is accepted again whenever its user sends it for the same target while
\* the token's expires_at is not before the current time, and the replay
\* runs the vote mutation for the value it carries.
C22_AcceptedProofReplays ==
    [][(/\ last'.op = "replay"
        /\ Deserialize(last.kept.pow_token[1].data).expires_at >= now) =>
          LET t == <<last.kept.target_type, last.kept.id>>
              change == set_vote(content, votes, next_vote_id,
                                 last.kept.user_id, t, last'.value)
          IN  /\ last'.result = "ok"
              /\ last'.ret = last'.value
              /\ votes' = change.votes
              /\ content' = change.content]_vars

\* a proof accepted for an upvote carries a downvote one second later
C22_Witness ==
    /\ last.op = "replay"
    /\ last.result = "ok"
    /\ last.old = 1
    /\ last.value = -1
    /\ now > Deserialize(last.kept.pow_token[1].data).issued_at
    /\ \E r \in VoteRows(votes, last.kept.user_id, <<last.kept.target_type, last.kept.id>>) :
          r.value = -1
    /\ content[<<last.kept.target_type, last.kept.id>>].downvotes = 1

(***************************************************************************)
(* websocket/hub.rs: NotificationHub under concurrent calls                *)
(***************************************************************************)
\* connection ids handed out by next_conn_id, notifications pushed, and calls
\* that have released a user's entry and not yet removed its key
MaxConnId == 3
MaxPushed == 2
MaxInFlight == 1

ConnIds == 1..MaxConnId

\* the connections the registry holds, under any user
Registered(conns) == UNION {SendersOf(conns, u) : u \in Users}

\* the connections of a user whose subscribe returned, whose receiver is
\* alive and which the user has not unsubscribed
LiveSubs(chans, user_id) ==
    {c \in DOMAIN chans :
        chans[c].owner = user_id /\ chans[c].open /\ ~chans[c].unsubscribed}

InitHub ==
    /\ content = InitContent
    /\ votes = {}
    /\ next_vote_id = 1
    /\ last = [op |-> "none", result |-> "none", ret |-> 0]
    /\ calls = {}
    /\ start = <<>>
    /\ round = 0
    /\ karma = [u \in Users |-> 0]
    /\ ledger = {}
    /\ next_ledger_id = 1
    /\ NoClock /\ NoNotifications /\ NoHub

HubUnchanged ==
    UNCHANGED <<voteVars, last, start, round, pointsVars, notifications, now>>

\* a call that found the list empty holds no lock until its remove
Parked(emptied, call) ==
    /\ emptied => Cardinality(calls) < MaxInFlight
    /\ calls' = IF emptied THEN calls \cup {call} ELSE calls

Subscribe(user_id) ==
    /\ next_conn_id <= MaxConnId
    /\ LET r == subscribe(connections, channels, next_conn_id, user_id)
       IN  /\ connections' = r.connections
           /\ channels' = r.channels
           /\ next_conn_id' = r.next_conn_id
    /\ UNCHANGED <<calls, next_notification_id>>
    /\ HubUnchanged

\* unsubscribe(user_id, conn_id) up to drop(senders); the channel remembers
\* that its own user unsubscribed it
Unsubscribe(user_id, conn_id) ==
    /\ LET r == unsubscribe_retain(connections, user_id, conn_id)
       IN  /\ connections' = r.connections
           /\ Parked(r.emptied, [op |-> "unsubscribe", user_id |-> user_id, arg |-> conn_id])
    /\ channels' = [c \in DOMAIN channels |->
                      IF c = conn_id /\ channels[c].owner = user_id
                      THEN [channels[c] EXCEPT !.unsubscribed = TRUE]
                      ELSE channels[c]]
    /\ UNCHANGED <<next_conn_id, next_notification_id>>
    /\ HubUnchanged

\* send_to_user(user_id, json of the notification saved last) up to
\* drop(senders)
SendToUser(user_id) ==
    /\ next_notification_id <= MaxPushed
    /\ LET r == send_to_user_retain(connections, channels, user_id, next_notification_id)
       IN  /\ connections' = r.connections
           /\ channels' = r.channels
           /\ Parked(r.emptied, [op |-> "send_to_user", user_id |-> user_id,
                                 arg |-> next_notification_id])
    /\ next_notification_id' = next_notification_id + 1
    /\ UNCHANGED next_conn_id
    /\ HubUnchanged

\* self.connections.remove(&user_id) of a call that found the list empty;
\* the call returns
RemoveKey(call) ==
    /\ call \in calls
    /\ connections' = remove(connections, call.user_id)
    /\ calls' = calls \ {call}
    /\ UNCHANGED <<channels, next_conn_id, next_notification_id>>
    /\ HubUnchanged

\* the task holding the receiver of a connection ends; the messages it had
\* not read go with it
DropReceiver(conn_id) ==
    /\ conn_id \in DOMAIN channels
    /\ channels[conn_id].open
    /\ channels' = [channels EXCEPT ![conn_id].open = FALSE, ![conn_id].queue = <<>>]
    /\ UNCHANGED <<connections, calls, next_conn_id, next_notification_id>>
    /\ HubUnchanged

NextHub ==
    \/ \E u \in Users : Subscribe(u)
    \/ \E u \in Users, c \in ConnIds : Unsubscribe(u, c)
    \/ \E u \in Users : SendToUser(u)
    \/ \E call \in calls : RemoveKey(call)
    \/ \E c \in ConnIds : DropReceiver(c)

SpecHub == InitHub /\ [][NextHub]_vars

\* C23: a connection unsubscribed by its user is never registered again and
\* no message is ever added to its queue; and from the start of
\* unsubscribe(user_id, conn_id) to its return every other registered
\* connection, of that user or another, stays registered.
C23_UnsubscribeRemovesOnlyThat ==
    [][/\ \A c \in DOMAIN channels :
             channels[c].unsubscribed =>
                 /\ channels'[c].unsubscribed
                 /\ \/ channels'[c].queue = channels[c].queue
                    \/ ~channels'[c].open /\ channels'[c].queue = <<>>
                 /\ c \notin Registered(connections')
       /\ \A u \in Users, c \in ConnIds :
             Unsubscribe(u, c) =>
                 Registered(connections) \ {c} \subseteq Registered(connections')
       /\ \A call \in calls :
             (call.op = "unsubscribe" /\ RemoveKey(call)) =>
                 Registered(connections) \ {call.arg} \subseteq Registered(connections')]_vars

\* C24: when two or more connections of a user have completed subscribe,
\* have their receiver alive and were not unsubscribed, a send_to_user for
\* that user adds the message exactly once, at the end, to the queue of each
\* of them.
C24_EverySubscriptionReceivesOnce ==
    [][\A u \in Users :
          (SendToUser(u) /\ Cardinality(LiveSubs(channels, u)) >= 2) =>
              \A c \in LiveSubs(channels, u) :
                  channels'[c].queue = Append(channels[c].queue, next_notification_id)]_vars

\* a call returns in the step that takes it: subscribe always, unsubscribe
\* and send_to_user when the list is not left empty, and otherwise at the
\* removal of the key
Returns ==
    \/ \E u \in Users : Subscribe(u)
    \/ \E u \in Users, c \in ConnIds :
          Unsubscribe(u, c) /\ ~unsubscribe_retain(connections, u, c).emptied
    \/ \E u \in Users :
          /\ SendToUser(u)
          /\ ~send_to_user_retain(connections, channels, u, next_notification_id).emptied
    \/ \E call \in calls : RemoveKey(call)

MaxKeysConnId == 2
MaxKeysPushed == 1

NextKeys ==
    /\ NextHub
    /\ next_conn_id' <= MaxKeysConnId + 1
    /\ next_notification_id' <= MaxKeysPushed + 1

SpecKeys == InitHub /\ [][NextKeys]_vars

C26_SendDeliversAndPrunesDead ==
    [][/\ \A u \in Users :
             SendToUser(u) =>
                 LET mine == SendersOf(connections, u)
                     live == {c \in mine : channels[c].open}
                 IN  /\ \A c \in live :
                            channels'[c].queue = Append(channels[c].queue, next_notification_id)
                     /\ \A c \in DOMAIN channels \ live : channels'[c] = channels[c]
                     /\ Registered(connections') = Registered(connections) \ (mine \ live)
                     /\ ~connections[u].present => connections' = connections
       /\ \A call \in calls :
             (call.op = "send_to_user" /\ RemoveKey(call)) =>
                 \A c \in Registered(connections) :
                     channels[c].open => c \in Registered(connections')]_vars

(***************************************************************************)
(* VoteService::vote and PointsService::apply_vote_points on one database  *)
(***************************************************************************)
\* vote rows and ledger rows written, together
MaxMissingRows == 2

\* a post that has a row, and a post and a comment that have none
MissingRequests == {<<"post", 1>>, <<"post", 2>>, <<"comment", 2>>}

NextNotFound ==
    /\ \/ \E u \in Users, t \in MissingRequests, v \in VoteInputs : Vote(u, t, v)
       \/ \E actor \in Users, t \in MissingRequests, d \in PointInputs :
             ApplyVotePoints(actor, t, d)
    /\ (next_vote_id' - 1) + (next_ledger_id' - 1) <= MaxMissingRows

SpecNotFound == InitVote /\ [][NextNotFound]_vars

\* C27: a vote of value 1 or -1 on a post or comment that has no row ends
\* with NotFound, and so does apply_vote_points with a non-zero delta; no
\* call on a target that has no row changes a vote row, a counter, a ledger
\* entry or a karma value.
C27_MissingTargetNotFound ==
    [][/\ (last'.op = "vote" /\ ~FindTarget(content, last'.target)) =>
             /\ UNCHANGED <<voteVars, pointsVars>>
             /\ (last'.target \in Targets /\ last'.value \in {1, -1}) =>
                    last'.result = "not_found"
       /\ (last'.op = "apply_vote_points" /\ ~FindTarget(content, last'.ref)) =>
             /\ UNCHANGED <<voteVars, pointsVars>>
             /\ last'.ref \in Targets =>
                    \A actor \in Users, d \in PointInputs \ {0} :
                        ApplyVotePoints(actor, last'.ref, d) => last'.result = "not_found"]_vars

\* with a vote row and a ledger row in the database, a vote on a missing
\* comment has just ended with NotFound
C27_Witness ==
    /\ last.op = "vote"
    /\ last.result = "not_found"
    /\ last.value \in {1, -1}
    /\ last.target[1] = "comment"
    /\ votes # {}
    /\ ledger # {}

\* C28: a vote whose value is none of -1, 0, 1 ends with the validation
\* error whether or not the target has a row or its type a table, and
\* changes no vote row, counter, ledger entry or karma value.
C28_BadValueRejectedFirst ==
    [][(last'.op = "vote" /\ last'.value \notin VoteValues) =>
          /\ last'.result = "validation"
          /\ UNCHANGED <<voteVars, pointsVars>>]_vars

\* with a vote row in the table, a vote of value 2 on a comment that has no
\* row has just ended with the validation error
C28_Witness ==
    /\ last.op = "vote"
    /\ last.value = 2
    /\ last.result = "validation"
    /\ last.target \in Targets
    /\ ~FindTarget(content, last.target)
    /\ votes # {}

\* a token of two base64 segments whose second is not the HMAC of the first
\* under the server's secret
SignatureMismatch(token) ==
    /\ Len(token) = 2
    /\ token[1].valid /\ token[2].valid
    /\ token[2].data # HmacSha256(PowConfig.secret, token[1].data)

\* C29: a vote request whose token has a signature that does not match, and
\* one whose validly signed token is bound to another user, action or target
\* than the request's, both end with the Unauthorized error.
C29_BadTokenUnauthorized ==
    [][/\ (last'.op = "vote" /\ last'.verdict = "misbound") =>
             last'.result = "unauthorized"
       /\ \A u \in Users, id \in PathIds :
             \A p \in {q \in VoteRequests(u, "post", id, now) :
                          SignatureMismatch(q.pow_token)} :
                 VotePost(u, id, p) => last'.result = "unauthorized"]_vars

(***************************************************************************)
(* The votes table under single and concurrent calls                       *)
(***************************************************************************)
\* rounds of two concurrent calls on one post, with every input value
MaxRowRounds == 2

NextRows ==
    \/ \E u1, u2 \in Users, v1, v2 \in VoteInputs :
          round < MaxRowRounds /\ Issue(u1, <<"post", 1>>, v1, u2, <<"post", 1>>, v2)
    \/ \E k \in Tasks : Step(k)
    \/ Settle

SpecRows == InitConc /\ [][NextRows]_vars

\* C30: in every state, also between the statements of concurrent calls,
\* the votes table holds at most one row per (user_id, target_type,
\* target_id) and every row has value 1 or -1.
C30_OneRowPerUserTarget ==
    /\ \A r, q \in votes :
          (r.user_id = q.user_id /\ r.target = q.target) => r = q
    /\ \A r \in votes : r.value \in {1, -1}

\* two concurrent calls of one user both found no row; one inserted it and
\* the insert of the other was refused
C30_Witness ==
    \E k, j \in Tasks :
        /\ k # j
        /\ calls[k].user_id = calls[j].user_id
        /\ calls[k].target = calls[j].target
        /\ calls[k].existing = NoVote /\ calls[j].existing = NoVote
        /\ calls[k].pc = "done" /\ calls[k].result = "ok"
        /\ calls[j].pc = "done" /\ calls[j].result # "ok"
        /\ Cardinality(VoteRows(votes, calls[k].user_id, calls[k].target)) = 1

(***************************************************************************)
(* Vote calls on a post whose counters have drifted                        *)
(***************************************************************************)
\* the largest value a counter starts from
MaxDrift == 1

\* the vote rows the two users may hold on post 1 before the first call,
\* with ids apart from those the sequence hands out afterwards
DriftVotes ==
    {{[id |-> -u, user_id |-> u, target |-> <<"post", 1>>, value |-> held[u]] :
         u \in {x \in Users : held[x] # 0}} :
        held \in [Users -> {-1, 0, 1}]}

\* post 1 with any non-negative counters, whatever vote rows exist
InitDrift ==
    /\ \E up, down \in 0..MaxDrift :
          content = [InitContent EXCEPT ![<<"post", 1>>].upvotes = up,
                                        ![<<"post", 1>>].downvotes = down]
    /\ votes \in DriftVotes
    /\ next_vote_id = 1
    /\ last = NoCall
    /\ calls = <<>>
    /\ start = <<>>
    /\ round = 0
    /\ karma = [u \in Users |-> 0]
    /\ ledger = {}
    /\ next_ledger_id = 1
    /\ NoClock /\ NoNotifications /\ NoHub

NextDrift == \E u \in Users, v \in {-1, 1} : Vote(u, <<"post", 1>>, v)

SpecDrift == InitDrift /\ [][NextDrift]_vars

\* C31: whatever non-negative values the counters of a target start from,
\* no sequence of vote calls makes its upvotes or downvotes negative.
C31_CountersNeverNegative ==
    \A t \in Targets : content[t].upvotes >= 0 /\ content[t].downvotes >= 0

\* a swing from 1 to -1 found upvotes at 0 and left it at 0
C31_Witness ==
    /\ LastSwing
    /\ last.old_value = 1
    /\ last.old_upvotes = 0
    /\ content[last.target].upvotes = 0
    /\ content[last.target].downvotes = last.old_downvotes + 1

(***************************************************************************)
(* VoteService::vote when the database fails the counter statement         *)
(***************************************************************************)
\* what the database does to the UPDATE of update_counters
CounterOutcomes == {"ok", "counters_fail"}

\* every statement of vote runs on self.db and commits by itself; a failing
\* UPDATE returns its error through `?` with the row write already there
vote_under(ct, vs, id, u, t, v, db) ==
    LET r == vote(ct, vs, id, u, t, v)
    IN  IF db = "ok" \/ r.frame.result # "ok" THEN r
        ELSE [frame |-> Finish(r.frame, "db_error", 0), content |-> ct,
              votes |-> r.votes, next_vote_id |-> r.next_vote_id]

\* the counters explored; failed updates let them drift from the rows
MaxAtomicCount == 2

VoteUnder(u, t, v, db) ==
    LET r == vote_under(content, votes, next_vote_id, u, t, v, db)
    IN /\ r.next_vote_id <= MaxVoteId + 1
       /\ r.content[t].upvotes <= MaxAtomicCount
       /\ r.content[t].downvotes <= MaxAtomicCount
       /\ content' = r.content
       /\ votes' = r.votes
       /\ next_vote_id' = r.next_vote_id
       /\ last' = [NoCall EXCEPT !.op = "vote", !.user_id = u, !.target = t, !.value = v,
                                 !.old_value = r.frame.old_value,
                                 !.result = r.frame.result, !.ret = r.frame.ret]
       /\ UNCHANGED <<concVars, pointsVars, now, notifyVars, hubVars>>

NextAtomic ==
    \E u \in Users, v \in {-1, 1}, db \in CounterOutcomes : VoteUnder(u, <<"post", 1>>, v, db)

SpecAtomic == InitVote /\ [][NextAtomic]_vars

\* C32: a vote call that fails leaves the vote rows as they were, as it
\* leaves the counters.
C32_FailedVoteChangesNoRow ==
    [][(last'.op = "vote" /\ last'.result # "ok") =>
          (votes' = votes /\ content' = content)]_vars
(***************************************************************************)
(* No self-credit and no empty award                                       *)
(***************************************************************************)
\* C33: every ledger entry credits the author of its reference for the
\* action of another user with a non-zero delta, and an apply_vote_points
\* call either writes one such entry or changes neither ledger nor karma.
C33_NoSelfCredit ==
    /\ [](\A e \in ledger : e.user_id # e.actor_user_id /\ e.delta # 0)
    /\ [][last'.op = "apply_vote_points" =>
            IF ledger' = ledger THEN karma' = karma
            ELSE \E e \in ledger' \ ledger :
                    /\ ledger' = ledger \cup {e}
                    /\ e.user_id = content[e.ref].user_id
                    /\ e.user_id # e.actor_user_id
                    /\ e.delta # 0]_vars

\* an award on post 1 that succeeded and left no entry for it, beside
\* entries of other awards
C33_Witness ==
    /\ last.op = "apply_vote_points" /\ last.result = "ok"
    /\ last.ref = <<"post", 1>>
    /\ LedgerRows(ledger, <<"post", 1>>) = {}
    /\ ledger # {}
(***************************************************************************)
(* Connection ids under concurrent subscribe calls                         *)
(***************************************************************************)
\* subscribe calls started, and subscribe calls between their fetch_add and
\* their push
MaxAllocated == 3
MaxSubscribing == 2

Subscribing == {c \in calls : c.op = "subscribe"}

\* subscribe(user_id) up to the creation of its channel: the id is drawn,
\* nothing is registered yet
FetchAdd(user_id) ==
    /\ Len(channels) < MaxAllocated
    /\ Cardinality(Subscribing) < MaxSubscribing
    /\ LET r == fetch_add(next_conn_id)
       IN  /\ next_conn_id' = r.next_conn_id
           /\ channels' = Append(channels, [open |-> TRUE, queue |-> <<>>,
                                            owner |-> user_id, unsubscribed |-> FALSE,
                                            conn_id |-> r.conn_id])
           /\ calls' = calls \cup {[op |-> "subscribe", user_id |-> user_id,
                                    arg |-> r.conn_id]}
    /\ UNCHANGED <<connections, next_notification_id>>
    /\ HubUnchanged

\* the push of a subscribe call under the entry's lock; the call returns
\* (conn_id, rx)
PushSender(call) ==
    /\ call \in Subscribing
    /\ connections' = push(connections, call.user_id, call.arg)
    /\ calls' = calls \ {call}
    /\ UNCHANGED <<channels, next_conn_id, next_notification_id>>
    /\ HubUnchanged

NextIds ==
    \/ \E u \in Users : FetchAdd(u)
    \/ \E call \in calls : PushSender(call)
    \/ \E u \in Users, c \in ConnIds : Unsubscribe(u, c)
    \/ \E call \in calls \ Subscribing : RemoveKey(call)

SpecIds == InitHub /\ [][NextIds]_vars

\* C34: the connection ids drawn by subscribe calls, in the order they were
\* drawn, are strictly increasing, so no two calls of any users hold the same
\* id, and a registered id is the id one call of that user drew.
C34_ConnIdsIncrease ==
    /\ \A i, j \in DOMAIN channels :
          i < j => channels[i].conn_id < channels[j].conn_id
    /\ \A u \in Users : \A k \in DOMAIN connections[u].senders :
          /\ \E i \in DOMAIN channels :
                channels[i].conn_id = connections[u].senders[k] /\ channels[i].owner = u
          /\ \A v \in Users : \A m \in DOMAIN connections[v].senders :
                connections[v].senders[m] = connections[u].senders[k] => v = u /\ m = k

\* two calls drew their ids before either pushed, and the one that drew
\* second pushed first
C34_Witness ==
    /\ \E c \in Subscribing : c.arg = 1
    /\ 2 \in Registered(connections)
    /\ Len(channels) >= 2
(***************************************************************************)
(* Delivery: at most once, to the connections registered at the call       *)
(***************************************************************************)
\* C35: no queue holds a message twice; a queue starts empty, and a message
\* is added to it only by a send_to_user call for the user the connection
\* was subscribed for, while the connection is in that user's list, once,
\* and to no connection of another user in the same call.
C35_AtMostOnceNotRetroactive ==
    /\ [](\A c \in DOMAIN channels : \A k, m \in DOMAIN channels[c].queue :
             channels[c].queue[k] = channels[c].queue[m] => k = m)
    /\ [][\A c \in DOMAIN channels' :
            IF c \notin DOMAIN channels THEN channels'[c].queue = <<>>
            ELSE \/ channels'[c].queue = channels[c].queue
                 \/ ~channels'[c].open /\ channels'[c].queue = <<>>
                 \/ /\ channels'[c].queue = Append(channels[c].queue, next_notification_id)
                    /\ next_notification_id' = next_notification_id + 1
                    /\ c \in SendersOf(connections, channels[c].owner)
                    /\ \A d \in DOMAIN channels :
                          channels'[d].queue # channels[d].queue =>
                              channels[d].owner = channels[c].owner]_vars

\* a connection that got the message beside a registered live connection
\* that did not: one of another user, or one subscribed after the call
C35_Witness ==
    \E c, d \in DOMAIN channels :
        /\ channels[c].queue # <<>>
        /\ d \in Registered(connections) /\ channels[d].open
        /\ channels[d].queue = <<>>
(***************************************************************************)
(* The points a voter's requests add up to                                 *)
(***************************************************************************)
\* the ids the requests of a run may draw from each of the three sequences
MaxTallyRows == 3

\* vote_post / vote_comment with the proof of a token issued for the request
HandleVoteTally(target_type, kind, user_id, id, payload) ==
    \E r \in {vote_handler(target_type, kind, user_id, id, payload, now)} :
        /\ r.next_vote_id <= MaxTallyRows + 1
        /\ r.next_ledger_id <= MaxTallyRows + 1
        /\ r.next_notification_id <= MaxTallyRows + 1
        /\ content' = r.content
        /\ votes' = r.votes
        /\ next_vote_id' = r.next_vote_id
        /\ karma' = r.karma
        /\ ledger' = r.ledger
        /\ next_ledger_id' = r.next_ledger_id
        /\ notifications' = r.notifications
        /\ next_notification_id' = r.next_notification_id
        /\ connections' = r.connections
        /\ channels' = r.channels
        /\ last' = [op |-> "vote", result |-> r.result, verdict |-> "none",
                    ret |-> 0, user_id |-> user_id,
                    target |-> <<target_type, id>>, value |-> payload.value,
                    old |-> CurrentVote(votes, user_id, <<target_type, id>>)]
        /\ UNCHANGED <<concVars, now, next_conn_id>>

VotePostTally(user_id, id, payload) ==
    HandleVoteTally("post", "vote_on_post", user_id, id, payload)

VoteCommentTally(user_id, id, payload) ==
    HandleVoteTally("comment", "vote_on_comment", user_id, id, payload)

\* the requests of a voter on a target of another author that pass the gate
TallyRequests(user_id, target_type, id, t) ==
    {p \in FaultRequests(user_id, target_type, id, t) :
        /\ FindTarget(content, <<target_type, id>>)
        /\ content[<<target_type, id>>].user_id # user_id
        /\ PowGate(target_type, user_id, id, p, t) = "ok"}

NextTally ==
    \/ \E u \in Users, id \in PathIds :
          \E p \in TallyRequests(u, "post", id, now) : VotePostTally(u, id, p)
    \/ \E u \in Users, id \in PathIds :
          \E p \in TallyRequests(u, "comment", id, now) : VoteCommentTally(u, id, p)

SpecTally == InitHandler /\ [][NextTally]_vars

\* the ledger entries the requests of actor on target have written
AwardsOf(lg, actor, t) == {e \in lg : e.actor_user_id = actor /\ e.ref = t}

\* C36: for a voter and a target of another author, the deltas of the
\* ledger entries written for the voter's requests on it add up to 1 when
\* the voter's vote is 1 and to 0 otherwise; an accepted request credits +1
\* when the vote becomes 1, -1 when it stops being 1, and nothing otherwise.
C36_OnePointPerVoterTarget ==
    /\ [](\A u \in Users, t \in Targets :
             (FindTarget(content, t) /\ content[t].user_id # u) =>
                 SumDeltas(AwardsOf(ledger, u, t)) = Bit(CurrentVote(votes, u, t) = 1))
    /\ [][(/\ last'.op = "vote" /\ last'.result = "ok"
           /\ content[last'.target].user_id # last'.user_id) =>
              /\ ledger \subseteq ledger'
              /\ ledger' \ ledger \subseteq AwardsOf(ledger', last'.user_id, last'.target)
              /\ SumDeltas(ledger' \ ledger) =
                    Bit(last'.value = 1 /\ last'.old # 1)
                    - Bit(last'.old = 1 /\ last'.value # 1)]_vars

\* a voter whose third award on a target left the vote at 1
C36_Witness ==
    \E u \in Users, t \in Targets :
        /\ Cardinality(AwardsOf(ledger, u, t)) = MaxTallyRows
        /\ CurrentVote(votes, u, t) = 1
        /\ karma[content[t].user_id] = 1
(***************************************************************************)
(* A fresh connection beside a call that is emptying the user's list       *)
(***************************************************************************)
\* C37: a registered connection whose receiver is alive and which its user
\* has not unsubscribed is still registered after every step of every call.
C37_FreshConnectionStays ==
    [][\A c \in Registered(connections) :
          (channels'[c].open /\ ~channels'[c].unsubscribed) =>
              c \in Registered(connections')]_vars
(***************************************************************************)
(* rollback_by_ref beside apply_vote_points                                *)
(***************************************************************************)
\* rollback_by_ref, lines 89-93: the rows the SELECT of the transaction
\* returns
rollback_select(lg, ref) == LedgerRows(lg, ref)

\* rollback_by_ref, lines 95-113: one UPDATE per selected entry, then the
\* DELETE, which filters the table by the reference again and removes the
\* rows committed by the time it runs, then the commit
rollback_finish(km, lg, entries, ref) ==
    [karma |-> SubtractEntries(km, entries),
     ledger |-> lg \ LedgerRows(lg, ref),
     result |-> "ok",
     ret |-> Cardinality(entries)]

\* a rollback has read its entries; awards may commit before its first
\* UPDATE takes a lock on a karma row
RollbackSelect(ref) ==
    /\ calls = <<>>
    /\ calls' = <<[op |-> "rollback_by_ref", ref |-> ref,
                   entries |-> rollback_select(ledger, ref)]>>
    /\ UNCHANGED <<voteVars, last, start, round, pointsVars, now, notifyVars, hubVars>>

RollbackFinish ==
    /\ calls # <<>>
    /\ LET r == rollback_finish(karma, ledger, calls[1].entries, calls[1].ref)
       IN  /\ karma' = r.karma
           /\ ledger' = r.ledger
           /\ last' = [op |-> "rollback_by_ref", ref |-> calls[1].ref,
                       result |-> r.result, ret |-> r.ret]
    /\ calls' = <<>>
    /\ UNCHANGED <<voteVars, start, round, next_ledger_id, now, notifyVars, hubVars>>

\* user_points_ledger.id values handed out beside the rollbacks
MaxRaceLedgerId == 2

NextRace ==
    /\ \/ \E actor \in Users, t \in Requests, d \in PointInputs : ApplyVotePoints(actor, t, d)
       \/ \E ref \in Requests : RollbackSelect(ref)
       \/ RollbackFinish
    /\ next_ledger_id' <= MaxRaceLedgerId + 1

SpecRace == InitPoints /\ [][NextRace]_vars

\* C38: whenever no rollback is between its SELECT and its commit, every
\* user's karma is the sum of the deltas of the user's ledger entries.
C38_KarmaIsLedgerSumAfterRace ==
    calls = <<>> => \A u \in Users : karma[u] = SumDeltas(LedgerOf(ledger, u))
(***************************************************************************)
(* services/report.rs: ReportService::resolve                              *)
(***************************************************************************)
\* the reports table, kept in calls: report id -> target and status
PendingReports ==
    <<[target |-> <<"post", 1>>, status |-> "pending"],
      [target |-> <<"comment", 1>>, status |-> "pending"],
      [target |-> <<"post", 1>>, status |-> "pending"]>>

ResolveActions == {"hide", "delete", "dismiss", "ban"}

\* hide_target, lines 150-173; is_hidden is a column of the row
hide_target(ct, t) ==
    IF t[1] \notin TargetTypes THEN [content |-> ct, result |-> "ok"]
    ELSE IF ~FindTarget(ct, t) THEN [content |-> ct, result |-> "not_found"]
    ELSE [content |-> [ct EXCEPT ![t] = [is_hidden |-> TRUE] @@ @], result |-> "ok"]

\* delete_target, lines 175-186: the delete_by_id and nothing else
delete_target(ct, t) ==
    IF t[1] \notin TargetTypes THEN [content |-> ct, result |-> "ok"]
    ELSE [content |-> DeleteContent(ct, t), result |-> "ok"]

\* ReportService::resolve, lines 97-148
resolve(ct, reports, report_id, action) ==
    LET same == [content |-> ct, reports |-> reports]
    IN  IF action \notin {"hide", "delete", "dismiss"} THEN same @@ [result |-> "validation"]
        ELSE IF report_id \notin DOMAIN reports THEN same @@ [result |-> "not_found"]
        ELSE IF reports[report_id].status # "pending" THEN same @@ [result |-> "validation"]
        ELSE LET existing == reports[report_id]
                 applied == CASE action = "hide" -> hide_target(ct, existing.target)
                              [] action = "delete" -> delete_target(ct, existing.target)
                              [] OTHER -> [content |-> ct, result |-> "ok"]
             IN  IF applied.result # "ok" THEN same @@ [result |-> applied.result]
                 ELSE [content |-> applied.content,
                       reports |-> [reports EXCEPT ![report_id].status =
                                       IF action = "dismiss" THEN "dismissed"
                                       ELSE "resolved"],
                       result |-> "ok"]

\* user_points_ledger.id values handed out before the moderation
MaxReportLedgerId == 2

InitReports ==
    /\ content = InitContent
    /\ votes = {}
    /\ next_vote_id = 1
    /\ last = [op |-> "none", result |-> "none", ret |-> 0]
    /\ calls = PendingReports
    /\ start = <<>>
    /\ round = 0
    /\ karma = [u \in Users |-> 0]
    /\ ledger = {}
    /\ next_ledger_id = 1
    /\ NoClock /\ NoNotifications /\ NoHub

Resolve(report_id, action) ==
    LET r == resolve(content, calls, report_id, action)
    IN /\ content' = r.content
       /\ calls' = r.reports
       /\ last' = [op |-> "resolve", ref |-> <<"report", report_id>>,
                   result |-> r.result, ret |-> 0]
       /\ UNCHANGED <<votes, next_vote_id, start, round, pointsVars, now,
                      notifyVars, hubVars>>

\* awards, an administrator's deletes and the resolution of reports
NextReports ==
    \/ \E actor \in Users, t \in Requests, d \in PointInputs :
          next_ledger_id <= MaxReportLedgerId /\ ApplyVotePoints(actor, t, d)
    \/ \E id \in Ids, db \in DbOutcomes : AdminDeletePost(id, db)
    \/ \E id \in Ids, db \in DbOutcomes : AdminDeleteComment(id, db)
    \/ \E report_id \in 1..(Len(PendingReports) + 1), action \in ResolveActions :
          Resolve(report_id, action)

SpecReports == InitReports /\ [][NextReports]_vars

\* the ledger entries of the posts and comments a step removes
RemovedEntries ==
    UNION {LedgerRows(ledger, t) : t \in {x \in Targets : content[x].exists /\ ~content'[x].exists}}

\* C39: a step that removes posts or comments removes every ledger entry
\* referencing them and subtracts their deltas from the karma they went to.
C39_RemovalRollsLedgerBack ==
    [][(\E t \in Targets : content[t].exists /\ ~content'[t].exists) =>
          /\ ledger' = ledger \ RemovedEntries
          /\ karma' = SubtractEntries(karma, RemovedEntries)]_vars

\* the removal by a resolved report that leaves the ledger as it was
C39_ReportDeleteKeepsLedger ==
    ~(/\ last.op = "resolve" /\ last.result = "ok"
      /\ \E t \in Targets : ~content[t].exists /\ LedgerRows(ledger, t) # {})
(***************************************************************************)
(* websocket/notification.rs: handle_socket                                *)
(***************************************************************************)
\* sockets opened in a run
MaxSessions == 2

\* handle_socket, lines 31-35: the socket is split and the hub subscribed;
\* the receiver moves into send_task
Connect(user_id) ==
    /\ next_conn_id <= MaxSessions
    /\ LET r == subscribe(connections, channels, next_conn_id, user_id)
       IN  /\ connections' = r.connections
           /\ channels' = [r.channels EXCEPT ![r.conn_id] = [session |-> "open"] @@ @]
           /\ next_conn_id' = r.next_conn_id
    /\ UNCHANGED <<calls, next_notification_id>>
    /\ HubUnchanged

\* the client closes: recv_task ends, select! returns and handle_socket
\* logs and returns, lines 46-58; send_task is not aborted and keeps the
\* receiver, and the hub is not called
EndSession(conn_id) ==
    /\ conn_id \in DOMAIN channels
    /\ channels[conn_id].session = "open"
    /\ channels' = [channels EXCEPT ![conn_id].session = "ended"]
    /\ UNCHANGED <<connections, calls, next_conn_id, next_notification_id>>
    /\ HubUnchanged

\* send_task, lines 37-43: takes a message off the channel and writes it to
\* the socket; on a closed socket the write fails, the loop breaks and the
\* receiver is dropped
SendTask(conn_id) ==
    /\ conn_id \in DOMAIN channels
    /\ channels[conn_id].open
    /\ channels[conn_id].queue # <<>>
    /\ channels' = [channels EXCEPT ![conn_id] =
                      IF @.session = "ended" THEN [@ EXCEPT !.open = FALSE, !.queue = <<>>]
                      ELSE [@ EXCEPT !.queue = Tail(@)]]
    /\ UNCHANGED <<connections, calls, next_conn_id, next_notification_id>>
    /\ HubUnchanged

NextSession ==
    \/ \E u \in Users : Connect(u)
    \/ \E c \in ConnIds : EndSession(c)
    \/ \E c \in ConnIds : SendTask(c)
    \/ \E u \in Users : SendToUser(u)
    \/ \E call \in calls : RemoveKey(call)

\* the runtime runs a task that can run: send_task with a message waiting
\* and a call that is about to remove a key; nobody has to connect, leave,
\* or push
SpecSession ==
    /\ InitHub /\ [][NextSession]_vars
    /\ \A c \in ConnIds : WF_vars(SendTask(c))
    /\ WF_vars(\E call \in calls : RemoveKey(call))

\* C40: a connection whose session has ended is eventually not registered.
C40_EndedSessionLeavesRegistry ==
    \A c \in ConnIds :
        (c \in DOMAIN channels /\ channels[c].session = "ended")
            ~> (c \notin Registered(connections))

====
